---- MODULE Spec2Model ----
(***************************************************************************)
(* Model of the scraping subsystem of crawlabi:                            *)
(*   - src/src/scraper.js  ScraperService (shared browser/context, retry,  *)
(*     resource blocking, per-selector extraction, node-cache result cache)*)
(*   - src/src/main.js     scrapeSingleUrl / processSelectors /            *)
(*     createCacheKey (per-request browser, resultsCache)                  *)
(* JavaScript strings are sequences of one-character strings, JavaScript   *)
(* values are tagged records, so that JSON.stringify and trim are computed *)
(* and not assumed.                                                        *)
(***************************************************************************)
EXTENDS Integers, Sequences, FiniteSets, TLC

(***************************************************************************)
(* JavaScript values                                                       *)
(***************************************************************************)
Null == [null |-> TRUE]
Undefined == [undef |-> TRUE]
Str(s) == [str |-> s]
Num(n) == [num |-> n]
Bool(b) == [bool |-> b]
List(l) == [list |-> l]

IsStr(v) == DOMAIN v = {"str"}
IsBool(v) == DOMAIN v = {"bool"}
IsNum(v) == DOMAIN v = {"num"}

\* ToBoolean of the values the model uses
Truthy(v) ==
    CASE v = Null -> FALSE
      [] v = Undefined -> FALSE
      [] IsStr(v) -> v.str # <<>>
      [] IsBool(v) -> v.bool
      [] IsNum(v) -> v.num # 0
      [] OTHER -> TRUE

(***************************************************************************)
(* Strings                                                                 *)
(***************************************************************************)
TEXT == <<"t", "e", "x", "t">>
HTML == <<"h", "t", "m", "l">>
ATTRIBUTE == <<"a", "t", "t", "r", "i", "b", "u", "t", "e">>
COUNT == <<"c", "o", "u", "n", "t">>
EXISTS == <<"e", "x", "i", "s", "t", "s">>
INNERTEXT == <<"i", "n", "n", "e", "r", "T", "e", "x", "t">>

RECURSIVE TrimStart(_)
TrimStart(s) == IF s # <<>> /\ Head(s) = " " THEN TrimStart(Tail(s)) ELSE s

RECURSIVE TrimEnd(_)
TrimEnd(s) ==
    IF s # <<>> /\ s[Len(s)] = " " THEN TrimEnd(SubSeq(s, 1, Len(s) - 1)) ELSE s

\* String.prototype.trim
Trim(s) == TrimEnd(TrimStart(s))

(***************************************************************************)
(* JSON.stringify of the values a selector list can hold                   *)
(***************************************************************************)
RECURSIVE JsonEscape(_)
JsonEscape(s) ==
    IF s = <<>> THEN <<>>
    ELSE (IF Head(s) = "\"" THEN <<"\\", "\"">>
          ELSE IF Head(s) = "\\" THEN <<"\\", "\\">>
          ELSE <<Head(s)>>) \o JsonEscape(Tail(s))

JsonString(s) == <<"\"">> \o JsonEscape(s) \o <<"\"">>

JsonValue(v) ==
    CASE v = Null -> <<"n", "u", "l", "l">>
      [] IsStr(v) -> JsonString(v.str)
      [] IsBool(v) -> IF v.bool THEN <<"t", "r", "u", "e">>
                      ELSE <<"f", "a", "l", "s", "e">>
      [] OTHER -> <<>>

\* one "key":value member; a member whose value is undefined is left out
JsonMember(k, v) ==
    IF v = Undefined THEN <<>> ELSE <<JsonString(k) \o <<":">> \o JsonValue(v)>>

RECURSIVE JsonJoin(_)
JsonJoin(parts) ==
    IF parts = <<>> THEN <<>>
    ELSE IF Len(parts) = 1 THEN parts[1]
    ELSE parts[1] \o <<",">> \o JsonJoin(Tail(parts))

\* JSON.stringify of one selector object (or of a null entry); the members
\* appear in the order name, query, type, multiple, attribute
JsonSelector(s) ==
    IF s = Null THEN JsonValue(Null)
    ELSE <<"{">>
         \o JsonJoin(JsonMember(<<"n", "a", "m", "e">>, s.name)
                     \o JsonMember(<<"q", "u", "e", "r", "y">>, s.query)
                     \o JsonMember(<<"t", "y", "p", "e">>, s.type)
                     \o JsonMember(<<"m", "u", "l", "t", "i", "p", "l", "e">>,
                                   s.multiple)
                     \o JsonMember(ATTRIBUTE, s.attribute))
         \o <<"}">>

\* JSON.stringify of an array of selectors
JsonSelectors(selectors) ==
    <<"[">> \o JsonJoin([i \in 1..Len(selectors) |-> JsonSelector(selectors[i])])
            \o <<"]">>

\* scraper.js: `${url}-${JSON.stringify(selectors)}`
ScrapeCacheKeyDropsMultiple(url, selectors) ==
    url \o <<"-">>
        \o JsonSelectors([i \in 1..Len(selectors) |->
             IF selectors[i] = Null THEN Null
             ELSE [selectors[i] EXCEPT !.multiple = Undefined]])

ScrapeCacheKey(url, selectors) == url \o <<"-">> \o JsonSelectors(selectors)

\* main.js createCacheKey: the selectors are first mapped to
\* {name, query, type, multiple, attribute}
CreateCacheKeyNoAttribute(url, selectors) ==
    url \o <<":">>
        \o JsonSelectors([i \in 1..Len(selectors) |->
             [name |-> selectors[i].name, query |-> selectors[i].query,
              type |-> selectors[i].type, multiple |-> selectors[i].multiple,
              attribute |-> Undefined]])

createCacheKey(url, selectors) ==
    url \o <<":">>
        \o JsonSelectors([i \in 1..Len(selectors) |->
             [name |-> selectors[i].name, query |-> selectors[i].query,
              type |-> selectors[i].type, multiple |-> selectors[i].multiple,
              attribute |-> selectors[i].attribute]])

(***************************************************************************)
(* The page under extraction: which elements a query matches               *)
(***************************************************************************)
HREF == <<"h", "r", "e", "f">>
QH1 == <<"h", "1">>
QA == <<"a">>
QP == <<"p">>
QBAD == <<"[">>

Element(text, inner, html, href) ==
    [text |-> text, innerText |-> inner, html |-> html, href |-> href]

\* document order of the elements matching a CSS query: one <h1>, two <a href>,
\* no <p>; QBAD is not a valid CSS selector
Matches(query) ==
    IF query = QH1 THEN <<Element(<<" ", "H", "i", " ">>, <<"H", "i">>, <<"H", "i">>, Null)>>
    ELSE IF query = QA
         THEN <<Element(<<"x">>, <<"x">>, <<"x">>, Str(<<"/", "x">>)),
                Element(<<" ">>, <<>>, <<" ">>, Str(<<"/", "y">>))>>
    ELSE <<>>

\* what the browser can do to one selector's evaluation
Faults == {"none", "query", "count", "extract"}

\* page.$ / page.$$ reject for an invalid selector or a crashed page
QueryThrows(query, fault) == fault = "query" \/ query = QBAD

GetAttribute(el, attributeName) == IF attributeName = HREF THEN el.href ELSE Null

(***************************************************************************)
(* Result maps: name -> value                                              *)
(***************************************************************************)
EmptyMap == [x \in {} |-> Null]

Put(m, k, v) == [x \in DOMAIN m \cup {k} |-> IF x = k THEN v ELSE m[x]]

Has(m, k) == k \in DOMAIN m

INVALIDKEY == Str(<<"i", "n", "v", "a", "l", "i", "d">>)

(***************************************************************************)
(* scraper.js: ScraperService._extractDataFromElement and the selector loop*)
(***************************************************************************)
\* every exception of the element operation is caught and gives null
ExtractDataFromElement(element, type, attributeName, fault) ==
    IF fault = "extract" THEN Null
    ELSE IF type = Str(TEXT)
         THEN (IF Trim(element.text) # <<>> THEN Str(Trim(element.text)) ELSE Null)
    ELSE IF type = Str(HTML) THEN Str(element.html)
    ELSE IF type = Str(ATTRIBUTE)
         THEN (IF Truthy(attributeName) THEN GetAttribute(element, attributeName.str)
               ELSE Null)
    ELSE Null

Outcome(threw, map) == [threw |-> threw, map |-> map]

\* one iteration of `for (const selector of selectors)`; threw = an exception
\* left the loop (and so the try block of the attempt)
ScrapeSelector(results, selector, fault) ==
    IF selector = Null \/ selector = Undefined
    THEN Outcome(TRUE, results)   \* selector.name of null: TypeError
    ELSE IF ~Truthy(selector.query) \/ ~Truthy(selector.name) \/ ~Truthy(selector.type)
    THEN Outcome(FALSE,
                 Put(results,
                     IF Truthy(selector.name) THEN selector.name ELSE INVALIDKEY,
                     Null))
    ELSE IF QueryThrows(selector.query.str, fault)
    THEN Outcome(FALSE, Put(results, selector.name, Null))
    ELSE LET elements == Matches(selector.query.str)
             one(el) == ExtractDataFromElement(el, selector.type, selector.attribute,
                                               fault)
         IN  Outcome(FALSE,
               Put(results, selector.name,
                 IF selector.type = Str(EXISTS) THEN Bool(Len(elements) > 0)
                 ELSE IF selector.type = Str(COUNT) THEN Num(Len(elements))
                 ELSE IF Truthy(selector.multiple)
                      THEN (IF Len(elements) > 0
                            THEN List([i \in 1..Len(elements) |-> one(elements[i])])
                            ELSE List(<<>>))
                 ELSE IF Len(elements) > 0 THEN one(elements[1])
                 ELSE Null))

(***************************************************************************)
(* main.js: processSelectors                                               *)
(***************************************************************************)
\* `multiple ? [] : null`
EmptyValue(multiple) == IF Truthy(multiple) THEN List(<<>>) ELSE Null

\* the switch (type) of processSelectors, for count > 0 and no exception
SwitchType(data, selector, elements) ==
    LET multiple == Truthy(selector.multiple)
        first == elements[1]
        all(f(_)) == List([i \in 1..Len(elements) |-> f(elements[i])])
        text(el) == Str(el.text)
        inner(el) == Str(el.innerText)
        html(el) == Str(el.html)
        attr(el) == GetAttribute(el, selector.attribute.str)
    IN  IF selector.type = Str(TEXT)
        THEN Put(data, selector.name, IF multiple THEN all(text) ELSE text(first))
        ELSE IF selector.type = Str(INNERTEXT)
        THEN Put(data, selector.name, IF multiple THEN all(inner) ELSE inner(first))
        ELSE IF selector.type = Str(HTML)
        THEN Put(data, selector.name, IF multiple THEN all(html) ELSE html(first))
        ELSE IF selector.type = Str(ATTRIBUTE) /\ Truthy(selector.attribute)
        THEN Put(data, selector.name, IF multiple THEN all(attr) ELSE attr(first))
        ELSE data   \* attribute without a name, or no case: nothing is assigned

\* one iteration of the loop of processSelectors
ProcessSelector(data, selector, fault) ==
    IF selector = Null \/ selector = Undefined
    THEN Outcome(TRUE, data)   \* the catch block reads selector.name: TypeError
    ELSE IF QueryThrows(selector.query.str, fault)
    THEN Outcome(FALSE, Put(data, selector.name, EmptyValue(selector.multiple)))
    ELSE LET elements == Matches(selector.query.str)
             elementExists == Len(elements) > 0
             count == Len(elements)
         IN  IF ~elementExists
             THEN Outcome(FALSE, Put(data, selector.name, EmptyValue(selector.multiple)))
             ELSE IF fault = "count"
             THEN Outcome(FALSE, Put(data, selector.name, EmptyValue(selector.multiple)))
             ELSE IF selector.type = Str(EXISTS)
             THEN Outcome(FALSE, Put(data, selector.name, Bool(elementExists)))
             ELSE IF selector.type = Str(COUNT)
             THEN Outcome(FALSE, Put(data, selector.name, Num(count)))
             ELSE IF count = 0
             THEN Outcome(FALSE, Put(data, selector.name, EmptyValue(selector.multiple)))
             ELSE IF fault = "extract"
                     /\ (selector.type \in {Str(TEXT), Str(INNERTEXT), Str(HTML)}
                         \/ (selector.type = Str(ATTRIBUTE)
                             /\ Truthy(selector.attribute)))
             THEN Outcome(FALSE, Put(data, selector.name, EmptyValue(selector.multiple)))
             ELSE Outcome(FALSE, SwitchType(data, selector, elements))

RECURSIVE ProcessFrom(_, _, _, _)
ProcessFrom(data, selectors, faults, i) ==
    IF i > Len(selectors) THEN Outcome(FALSE, data)
    ELSE LET o == ProcessSelector(data, selectors[i], faults[i])
         IN  IF o.threw THEN o ELSE ProcessFrom(o.map, selectors, faults, i + 1)

\* processSelectors(page, selectors); faults[i] is what the browser does to
\* the i-th selector
processSelectors(selectors, faults) == ProcessFrom(EmptyMap, selectors, faults, 1)

(***************************************************************************)
(* Requests                                                                *)
(***************************************************************************)
Selector(name, query, type, multiple, attribute) ==
    [name |-> name, query |-> query, type |-> type, multiple |-> multiple,
     attribute |-> attribute]

NTITLE == Str(<<"t">>)
NLINKS == Str(<<"l">>)
NCOUNT == Str(<<"c">>)

SelTitle == Selector(NTITLE, Str(QH1), Str(TEXT), Bool(FALSE), Undefined)
SelLinks == Selector(NLINKS, Str(QA), Str(ATTRIBUTE), Bool(TRUE), Str(HREF))
SelNoAttr == Selector(NLINKS, Str(QA), Str(ATTRIBUTE), Bool(FALSE), Undefined)
SelCountNone == Selector(NCOUNT, Str(QP), Str(COUNT), Bool(FALSE), Undefined)

\* selector lists a request body of POST /api/scraper/scrape can carry
\* (routes/scraper.js only checks that url and selectors are present)
RawSelectorLists == {<<SelTitle>>, <<SelLinks, SelTitle>>, <<Null, SelTitle>>}

\* selector lists that pass requestSchema of main.js
ValidSelectorLists == {<<SelTitle>>, <<SelLinks, SelTitle>>, <<SelNoAttr, SelCountNone>>}

URL == <<"h", ":", "u">>
Urls == {URL}

\* a string without a scheme
UrlMalformed == <<"u">>

SchemeLetters == {"h", "u"}

\* `new URL(s)` does not throw (what z.string().url() tests and page.goto
\* needs): the string starts with a scheme, letters followed by ":"
IsUrl(s) ==
    \E i \in 2..Len(s) :
        /\ s[i] = ":"
        /\ \A j \in 1..(i - 1) : s[j] \in SchemeLetters

Options(useCache, blockAds, blockTrackers, blockMedia, waitForNetworkIdle) ==
    [useCache |-> useCache, blockAds |-> blockAds, blockTrackers |-> blockTrackers,
     blockMedia |-> blockMedia, waitForNetworkIdle |-> waitForNetworkIdle]

\* the defaults (useCache, blockAds, blockTrackers, waitForNetworkIdle true,
\* blockMedia false), and the same with a flag switched
OptionSets ==
    {Options(TRUE, TRUE, TRUE, FALSE, TRUE), Options(FALSE, TRUE, TRUE, FALSE, TRUE),
     Options(TRUE, FALSE, FALSE, FALSE, FALSE)}

NoRequest == [url |-> <<>>, selectors |-> <<>>, options |-> Options(FALSE, FALSE, FALSE, FALSE, FALSE)]

(***************************************************************************)
(* Program constants                                                       *)
(***************************************************************************)
maxRetries == 3
retryDelay == 2000
stdTTL == 1800

(***************************************************************************)
(* Bounds of the model                                                     *)
(***************************************************************************)
\* ages of cache entries are tracked up to MaxTime seconds (> stdTTL)
MaxTime == 2000
\* seconds that pass in one Tick
TickStep == 1000
\* ScraperService.close() is no longer called once this many browsers were launched
MaxLaunches == 2
\* scrape calls in one behaviour
MaxCalls == 2

(***************************************************************************)
(* Return values and cache entries                                         *)
(***************************************************************************)
Obj(m) == [map |-> m]

\* kind: "none" (no call has finished), "returned", "thrown"
Ret(kind, data, fromCache, error, success) ==
    [kind |-> kind, data |-> data, fromCache |-> fromCache, error |-> error,
     success |-> success]

NoRet == Ret("none", Undefined, Undefined, "", Undefined)

\* node-cache keeps t = insertion time + stdTTL and get() serves an entry while
\* Date.now() <= t; the model keeps age = Date.now() - insertion time
LiveForever(c, key) == key \in DOMAIN c

Live(c, key) == key \in DOMAIN c /\ c[key].age <= stdTTL

CacheSet(c, key, val) ==
    [k \in DOMAIN c \cup {key} |-> IF k = key THEN [val |-> val, age |-> 0] ELSE c[k]]

\* get() deletes the entry it finds expired
CacheAfterGet(c, key) ==
    IF key \in DOMAIN c /\ ~Live(c, key) THEN [k \in DOMAIN c \ {key} |-> c[k]] ELSE c

EmptyCache == [k \in {} |-> Null]

Min(a, b) == IF a <= b THEN a ELSE b

VARIABLES
    program,     \* "app": app.js + routes/scraper.js + ScraperService; "main": main.js
    browser,     \* ScraperService.browser: 0 = null, else the id of the launch
    context,     \* ScraperService.context: 0 = null, else the id of its browser
    launches,    \* browsers launched by ScraperService so far
    cache,       \* the node-cache of the running program: key -> [val, age]
    req,         \* the scrape call in progress
    pc,          \* its position
    retries,     \* the retries parameter of the running retry() frame
    calls,       \* invocations of fn by retry() in this call
    delays,      \* retryDelay timers awaited in this call
    page,        \* the attempt's page: "none", "open", "closed"
    lbrowser,    \* scrapeSingleUrl's local browser: "none", "open", "closed", "closeFailed"
    leaked,      \* pages of this call whose attempt ended with no close() call on them
    closeCalls,  \* page.close() invocations on the current attempt's page
    idx,         \* index of the selector the loop is at
    results,     \* the results map under construction
    error,       \* the exception in flight ("" = none)
    primary,     \* the first exception raised in the current attempt
    touched,     \* browser work done by this call (launch, page, navigation, extraction)
    pending,     \* scrapeSingleUrl: the value its return statement has computed
    ret,         \* how the last call ended
    sinceLast,   \* seconds since the last call ended (up to MaxTime)
    prev,        \* the call before, when it was for the same url and selectors,
                 \* with useCache, and at most stdTTL seconds earlier
    ncalls,      \* scrape calls made so far
    faultsUsed,  \* what the browser did to each selector of the running extraction
    keyA,        \* cache-key runs: the selector list of the call that stored an entry
    keyB,        \* cache-key runs: the selector list of the later call
    keyPhase,    \* cache-key runs: "start", "stored", "looked"
    keyStored,   \* cache-key runs: the keys under which the entry was stored
    keyHit,      \* cache-key runs: whether the later call found the entry
    dead,        \* the browser process behind this.browser/this.context has died
    closing,     \* what the last close() attempted, until the next initialize()
    intercept,   \* interception runs: flags, request and the decisions taken
    cleared,     \* cache-clearing runs: the last clear operation and its report
    tasks,       \* concurrent runs: the position of every scrape call in flight
    http,        \* request-validation runs: the last request body and response
    batch        \* batch-analysis runs: the minute counter and every batch's loop

vars == <<program, browser, context, launches, cache, req, pc, retries, calls,
          delays, page, lbrowser, leaked, closeCalls, idx, results, error,
          primary, touched, pending, ret, sinceLast, prev, ncalls, faultsUsed,
          keyA, keyB, keyPhase, keyStored, keyHit, dead, closing, intercept,
          cleared, tasks, http, batch>>

scrapeVars == <<program, browser, context, launches, dead, cache, req, pc, retries, calls,
                delays, page, lbrowser, leaked, closeCalls, idx, results, error,
                primary, touched, pending, ret, sinceLast, prev, ncalls>>
keyVars == <<keyA, keyB, keyPhase, keyStored, keyHit>>

sessionVars == <<browser, context, launches, dead>>
sideVars == <<intercept, cleared, tasks, http, batch>>
callVars == <<req, retries, calls, delays, leaked, touched, sinceLast, prev, ncalls>>
attemptVars == <<page, lbrowser, closeCalls, idx, results, error, primary, pending,
                 faultsUsed>>

NoPrev == [same |-> FALSE, ret |-> NoRet]

\* close() has attempted neither close; otherwise "closed" or "failed"
NoClosing == [context |-> "none", browser |-> "none"]

\* what an attempted close() of a handle came to
CloseOutcome(ok) == IF ok THEN "closed" ELSE "failed"

\* the values of the variables of runs that are not under way
NoIntercept == [phase |-> "off"]
NoCleared == [phase |-> "off"]
NoTasks == [phase |-> "off"]
NoHttp == [phase |-> "off"]

NoBatch == [phase |-> "off"]

Init ==
    /\ program \in {"app", "main"}
    /\ browser = 0 /\ context = 0 /\ launches = 0
    /\ cache = EmptyCache
    /\ req = NoRequest
    /\ pc = "idle"
    /\ retries = 0 /\ calls = 0 /\ delays = 0
    /\ page = "none" /\ lbrowser = "none"
    /\ leaked = 0 /\ closeCalls = 0
    /\ idx = 1 /\ results = EmptyMap
    /\ error = "" /\ primary = ""
    /\ touched = FALSE
    /\ pending = NoRet
    /\ ret = NoRet
    /\ sinceLast = 0
    /\ prev = NoPrev
    /\ ncalls = 0
    /\ faultsUsed = <<>>
    /\ keyA = <<>> /\ keyB = <<>> /\ keyPhase = "start"
    /\ keyStored = <<>> /\ keyHit = <<>>
    /\ dead = FALSE /\ closing = NoClosing
    /\ intercept = NoIntercept /\ cleared = NoCleared
    /\ tasks = NoTasks /\ http = NoHttp /\ batch = NoBatch

Request(url, selectors, options) ==
    [url |-> url, selectors |-> selectors, options |-> options]

\* a new call begins; the finished one is remembered when the new one repeats it
StartCall(r) ==
    /\ ncalls < MaxCalls
    /\ ncalls' = ncalls + 1
    /\ req' = r
    /\ prev' = IF /\ ret.kind # "none"
                  /\ req.url = r.url /\ req.selectors = r.selectors
                  /\ req.options.useCache /\ r.options.useCache
                  /\ sinceLast <= stdTTL
               THEN [same |-> TRUE, ret |-> ret]
               ELSE NoPrev
    /\ calls' = 0 /\ delays' = 0 /\ leaked' = 0
    /\ touched' = FALSE

ResetAttempt ==
    /\ page' = "none" /\ lbrowser' = "none" /\ closeCalls' = 0
    /\ idx' = 1 /\ results' = EmptyMap
    /\ error' = "" /\ primary' = "" /\ pending' = NoRet
    /\ faultsUsed' = <<>>

(***************************************************************************)
(* scraper.js: ScraperService                                              *)
(***************************************************************************)
\* a lookup that serves an entry only to calls made with the default options
ScrapeHitDefaultsOnly(c, url, selectors, options) ==
    /\ options.useCache /\ Live(c, ScrapeCacheKey(url, selectors))
    /\ options = Options(TRUE, TRUE, TRUE, FALSE, TRUE)

\* scrape(): `if (useCache) { cachedResult = cache.get(cacheKey); if (cachedResult) ...`
ScrapeHit(c, url, selectors, options) ==
    options.useCache /\ Live(c, ScrapeCacheKey(url, selectors))

\* the value scrape() returns on a cache hit: the stored results map as it is
ScrapeCached(c, url, selectors) ==
    Ret("returned", c[ScrapeCacheKey(url, selectors)].val.data, Undefined, "",
        Undefined)

\* scrape(url, selectors, options) up to its first await
Scrape(url, selectors, options) ==
    /\ program = "app" /\ pc = "idle"
    /\ StartCall(Request(url, selectors, options))
    /\ ResetAttempt
    /\ cache' = IF options.useCache
                THEN CacheAfterGet(cache, ScrapeCacheKey(url, selectors))
                ELSE cache
    /\ IF ScrapeHit(cache, url, selectors, options)
       THEN /\ ret' = ScrapeCached(cache, url, selectors)
            /\ pc' = "idle"
            /\ retries' = 0
            /\ sinceLast' = 0
       ELSE /\ ret' = NoRet
            /\ pc' = "fn"
            /\ retries' = maxRetries
            /\ sinceLast' = sinceLast
    /\ UNCHANGED <<program, sessionVars,
                   keyVars, closing, sideVars>>

\* initialize(): `if (!this.browser)`
BrowserMissingAlways(b) == TRUE

BrowserMissing(b) == b = 0

\* initialize(): `if (!this.context)`
ContextMissing(c) == c = 0

\* retry(): fn() is invoked; its first statement is `await this.initialize()`.
\* outcome: what chromium.launch / browser.newContext do
Initialize(outcome) ==
    /\ program = "app" /\ pc = "fn"
    /\ calls' = calls + 1
    /\ touched' = TRUE
    /\ closing' = NoClosing
    /\ outcome = "launchFail" => BrowserMissing(browser)
    /\ outcome = "contextFail" => ContextMissing(context)
    \* newContext() of a browser process that has died rejects
    /\ (dead /\ ~BrowserMissing(browser) /\ ContextMissing(context))
           => outcome = "contextFail"
    /\ IF BrowserMissing(browser) /\ outcome = "launchFail"
       THEN /\ UNCHANGED sessionVars
            /\ error' = "launch" /\ primary' = "launch" /\ pc' = "retryCatch"
       ELSE /\ browser' = (IF BrowserMissing(browser) THEN launches + 1 ELSE browser)
            /\ launches' = (IF BrowserMissing(browser) THEN launches + 1 ELSE launches)
            /\ dead' = (IF BrowserMissing(browser) THEN FALSE ELSE dead)
            /\ IF ContextMissing(context) /\ outcome = "contextFail"
               THEN /\ context' = context
                    /\ error' = "context" /\ primary' = "context" /\ pc' = "retryCatch"
               ELSE /\ context' = (IF ContextMissing(context) THEN browser' ELSE context)
                    /\ error' = "" /\ primary' = "" /\ pc' = "newPage"
    /\ UNCHANGED <<program, cache, req, retries, delays, page, lbrowser, leaked,
                   closeCalls, idx, results, pending, ret, sinceLast, prev, ncalls,
                   faultsUsed, keyVars, sideVars>>

\* `const page = await this.context.newPage()`
NewPage(ok) ==
    /\ program = "app" /\ pc = "newPage"
    \* newPage() of a context whose browser process has died rejects
    /\ dead => ~ok
    /\ IF ok
       THEN /\ page' = "open" /\ closeCalls' = 0
            /\ pc' = "route"
            /\ UNCHANGED <<error, primary>>
       ELSE /\ error' = "newPage" /\ primary' = "newPage" /\ pc' = "retryCatch"
            /\ UNCHANGED <<page, closeCalls>>
    /\ UNCHANGED <<program, sessionVars, cache, req, retries, calls, delays,
                   lbrowser, leaked, idx, results, touched, pending, ret, sinceLast, prev,
                   ncalls,
                   faultsUsed, keyVars, closing, sideVars>>

\* _setupResourceBlocking returns without installing a route when no flag is set
InstallsRoute(options) ==
    ~(~options.blockAds /\ ~options.blockTrackers /\ ~options.blockMedia)

\* where an exception of `await this._setupResourceBlocking(...)` lands: the
\* call stands before the try block, so in retry()'s catch
RouteFailureHandler == "retryCatch"

SetupResourceBlocking(ok) ==
    /\ program = "app" /\ pc = "route"
    /\ ~InstallsRoute(req.options) => ok
    /\ IF ok
       THEN pc' = "goto" /\ UNCHANGED <<error, primary>>
       ELSE error' = "route" /\ primary' = "route" /\ pc' = RouteFailureHandler
    /\ UNCHANGED <<program, sessionVars, cache, callVars, page, lbrowser,
                   closeCalls, idx, results, pending, ret,
                   faultsUsed, keyVars, closing, sideVars>>

\* the statement after the navigation: the selector loop, which an empty list
\* leaves at once
AfterNavigationSkipsLoop(selectors) == "close"

AfterNavigation(selectors) == IF Len(selectors) = 0 THEN "close" ELSE "extract"

\* where an exception of `await page.goto(...)` lands: the catch block of the
\* attempt, which closes the page
GotoFailureHandlerSkipsClose == "retryCatch"

GotoFailureHandler == "catch"

\* `await page.goto(url, ...)`, inside the try block
Goto(ok) ==
    /\ program = "app" /\ pc = "goto"
    /\ ok => IsUrl(req.url)
    /\ IF ok
       THEN /\ pc' = (IF req.options.waitForNetworkIdle THEN "waitIdle"
                      ELSE AfterNavigation(req.selectors))
            /\ UNCHANGED <<error, primary>>
       ELSE error' = "goto" /\ primary' = "goto" /\ pc' = GotoFailureHandler
    /\ UNCHANGED <<program, sessionVars, cache, callVars, page, lbrowser,
                   closeCalls, idx, results, pending, ret,
                   faultsUsed, keyVars, closing, sideVars>>

\* `await page.waitForLoadState('networkidle', { timeout })`: a timeout rejects
WaitForLoadState(ok) ==
    /\ program = "app" /\ pc = "waitIdle"
    /\ IF ok
       THEN pc' = AfterNavigation(req.selectors) /\ UNCHANGED <<error, primary>>
       ELSE error' = "idle" /\ primary' = "idle" /\ pc' = "catch"
    /\ UNCHANGED <<program, sessionVars, cache, callVars, page, lbrowser,
                   closeCalls, idx, results, pending, ret,
                   faultsUsed, keyVars, closing, sideVars>>

\* one iteration of the selector loop
ExtractStep(fault) ==
    /\ program = "app" /\ pc = "extract"
    /\ faultsUsed' = Append(faultsUsed, fault)
    /\ LET o == ScrapeSelector(results, req.selectors[idx], fault)
       IN  IF o.threw
           THEN /\ error' = "selector" /\ primary' = "selector" /\ pc' = "catch"
                /\ UNCHANGED <<idx, results>>
           ELSE /\ results' = o.map
                /\ idx' = idx + 1
                /\ pc' = (IF idx = Len(req.selectors) THEN "close" ELSE "extract")
                /\ UNCHANGED <<error, primary>>
    /\ UNCHANGED <<program, sessionVars, cache, callVars, page, lbrowser,
                   closeCalls, pending, ret,
                   keyVars, closing, sideVars>>

\* where an exception of the `await page.close()` of the success path lands:
\* the statement is inside the try block
SuccessCloseFailureHandler == "catch"

\* the two statements swapped: `if (useCache) cache.set(cacheKey, results)`
\* runs before `await page.close()`
ClosePageSetFirst(ok) ==
    /\ program = "app" /\ pc = "close"
    /\ faultsUsed' = <<>>
    /\ closeCalls' = closeCalls + 1
    /\ cache' = (IF req.options.useCache
                 THEN CacheSet(cache, ScrapeCacheKey(req.url, req.selectors),
                               Ret("returned", Obj(results), Undefined, "",
                                   Undefined))
                 ELSE cache)
    /\ IF ok
       THEN /\ page' = "closed"
            /\ ret' = Ret("returned", Obj(results), Undefined, "", Undefined)
            /\ sinceLast' = 0
            /\ pc' = "idle"
            /\ UNCHANGED <<error, primary>>
       ELSE /\ error' = "close" /\ pc' = SuccessCloseFailureHandler
            /\ UNCHANGED <<page, ret, primary, sinceLast>>
    /\ UNCHANGED <<program, sessionVars, req, retries, calls, delays, lbrowser,
                   leaked, idx, results, touched, pending, prev, ncalls,
                   keyVars, closing, sideVars>>

\* `await page.close(); if (useCache) cache.set(cacheKey, results); return results`
ClosePage(ok) ==
    /\ program = "app" /\ pc = "close"
    /\ faultsUsed' = <<>>
    /\ closeCalls' = closeCalls + 1
    /\ IF ok
       THEN /\ page' = "closed"
            /\ cache' = (IF req.options.useCache
                         THEN CacheSet(cache, ScrapeCacheKey(req.url, req.selectors),
                                       Ret("returned", Obj(results), Undefined, "",
                                           Undefined))
                         ELSE cache)
            /\ ret' = Ret("returned", Obj(results), Undefined, "", Undefined)
            /\ sinceLast' = 0
            /\ pc' = "idle"
            /\ UNCHANGED <<error, primary>>
       ELSE /\ error' = "close" /\ pc' = SuccessCloseFailureHandler
            /\ UNCHANGED <<page, cache, ret, primary, sinceLast>>
    /\ UNCHANGED <<program, sessionVars, req, retries, calls, delays, lbrowser,
                   leaked, idx, results, touched, pending, prev, ncalls,
                   keyVars, closing, sideVars>>

\* `catch (error) { await page.close(); throw error; }`: a rejection of this
\* close() is what leaves the attempt
CatchCloseError(err, closeOk) == IF closeOk THEN err ELSE "close"

CatchClose(ok) ==
    /\ program = "app" /\ pc = "catch"
    /\ faultsUsed' = <<>>
    /\ closeCalls' = closeCalls + 1
    /\ page' = (IF ok THEN "closed" ELSE page)
    /\ error' = CatchCloseError(error, ok)
    /\ pc' = "retryCatch"
    /\ UNCHANGED <<program, sessionVars, cache, req, retries, calls, delays,
                   lbrowser, leaked, idx, results, primary, touched, pending, ret,
                   sinceLast, prev, ncalls,
                   keyVars, closing, sideVars>>

\* retry(): `throw error` rethrows the object the last invocation raised, as
\* it was raised; the attempt count goes to console.error only
Rethrown(err) == [message |-> err]

\* retry(): `if (retries > 0)`
RetryAgainOneLess(r) == r > 1

RetryAgain(r) == r > 0

\* retry()'s catch block: retry after a delay, or rethrow; the attempt is over
RetryCatch ==
    /\ program = "app" /\ pc = "retryCatch"
    /\ leaked' = (IF page = "open" /\ closeCalls = 0 THEN leaked + 1 ELSE leaked)
    /\ IF RetryAgain(retries)
       THEN pc' = "delay" /\ UNCHANGED <<ret, sinceLast>>
       ELSE /\ pc' = "idle"
            /\ ret' = Ret("thrown", Undefined, Undefined, Rethrown(error).message,
                       Undefined)
            /\ sinceLast' = 0
    /\ UNCHANGED <<program, sessionVars, cache, req, retries, calls, delays,
                   touched, prev, ncalls, attemptVars,
                   keyVars, closing, sideVars>>

\* a retry() that calls itself again without the setTimeout wait
DelaySkipped ==
    /\ program = "app" /\ pc = "delay"
    /\ delays' = delays
    /\ retries' = retries - 1
    /\ pc' = "fn"
    /\ ResetAttempt
    /\ UNCHANGED <<program, sessionVars, cache, req, calls, leaked, touched, ret,
                   sinceLast, prev, ncalls,
                   keyVars, closing, sideVars>>

\* `await new Promise(resolve => setTimeout(resolve, this.retryDelay))`, then
\* `return this.retry(fn, operationName, url, retries - 1)`
Delay ==
    /\ program = "app" /\ pc = "delay"
    /\ delays' = delays + 1
    /\ retries' = retries - 1
    /\ pc' = "fn"
    /\ ResetAttempt
    /\ UNCHANGED <<program, sessionVars, cache, req, calls, leaked, touched, ret,
                   sinceLast, prev, ncalls,
                   keyVars, closing, sideVars>>

\* close() without the two try/catch blocks: a rejected context.close()
\* leaves the function before the browser is closed and the references unset
CloseServiceUncaught(contextOk, browserOk) ==
    /\ program = "app" /\ pc = "idle"
    /\ browser # 0 \/ context # 0
    /\ launches < MaxLaunches
    /\ IF context # 0 /\ ~contextOk
       THEN /\ closing' = [context |-> "failed", browser |-> "none"]
            /\ UNCHANGED <<context, browser, dead>>
       ELSE IF browser # 0 /\ ~browserOk
       THEN /\ closing' = [context |-> IF context # 0 THEN "closed" ELSE "none",
                           browser |-> "failed"]
            /\ context' = 0
            /\ UNCHANGED <<browser, dead>>
       ELSE /\ closing' = [context |-> IF context # 0 THEN "closed" ELSE "none",
                           browser |-> IF browser # 0 THEN "closed" ELSE "none"]
            /\ context' = 0 /\ browser' = 0 /\ dead' = FALSE
    /\ UNCHANGED <<program, launches, cache, req, pc, retries, calls, delays,
                   page, lbrowser, leaked, closeCalls, idx, results, error,
                   primary, touched, pending, ret, sinceLast, prev, ncalls,
                   faultsUsed, keyVars, sideVars>>

\* ScraperService.close(): both closes are wrapped in try/catch
CloseService(contextOk, browserOk) ==
    /\ program = "app" /\ pc = "idle"
    /\ browser # 0 \/ context # 0
    /\ launches < MaxLaunches
    /\ closing' = [context |-> IF context # 0 THEN CloseOutcome(contextOk) ELSE "none",
                   browser |-> IF browser # 0 THEN CloseOutcome(browserOk) ELSE "none"]
    /\ context' = 0
    /\ browser' = 0
    /\ dead' = FALSE
    /\ UNCHANGED <<program, launches, cache, req, pc, retries, calls, delays,
                   page, lbrowser, leaked, closeCalls, idx, results, error,
                   primary, touched, pending, ret, sinceLast, prev, ncalls,
                   faultsUsed, keyVars, sideVars>>

\* d seconds pass between calls
Elapse(d) ==
    /\ pc = "idle"
    /\ sinceLast' = Min(sinceLast + d, MaxTime)
    /\ cache' = [k \in DOMAIN cache |->
                   [cache[k] EXCEPT !.age = Min(cache[k].age + d, MaxTime)]]
    /\ UNCHANGED <<program, sessionVars, req, pc, retries, calls, delays,
                   page, lbrowser, leaked, closeCalls, idx, results, error,
                   primary, touched, pending, ret, prev, ncalls,
                   faultsUsed, keyVars, closing, sideVars>>

Tick == Elapse(TickStep)

(***************************************************************************)
(* main.js: scrapeSingleUrl                                                *)
(***************************************************************************)
\* `if (options.useCache) { ... resultsCache.get(cacheKey); if (cachedResult) ...`
SingleHit(c, url, selectors, options) ==
    options.useCache /\ Live(c, createCacheKey(url, selectors))

\* `{...cachedResult, meta: {...cachedResult.meta, fromCache: true, ...}}`
SingleCached(c, url, selectors) ==
    [c[createCacheKey(url, selectors)].val EXCEPT !.fromCache = Bool(TRUE)]

\* the bundle the catch block returns
ErrorBundle(message) == Ret("returned", Undefined, Undefined, message, Bool(FALSE))

\* scrapeSingleUrl(url, selectors, options) up to its first await
ScrapeSingleUrl(url, selectors, options) ==
    /\ program = "main" /\ pc = "idle"
    /\ StartCall(Request(url, selectors, options))
    /\ ResetAttempt
    /\ retries' = 0
    /\ cache' = IF options.useCache
                THEN CacheAfterGet(cache, createCacheKey(url, selectors))
                ELSE cache
    /\ IF SingleHit(cache, url, selectors, options)
       THEN /\ ret' = SingleCached(cache, url, selectors)
            /\ pc' = "idle"
            /\ sinceLast' = 0
       ELSE /\ ret' = NoRet
            /\ pc' = "mLaunch"
            /\ sinceLast' = sinceLast
    /\ UNCHANGED <<program, sessionVars,
                   keyVars, closing, sideVars>>

\* a scrapeSingleUrl without its catch block: the finally block runs and the
\* exception leaves the function
MainThrowPropagates(message) ==
    /\ error' = message /\ primary' = message
    /\ pending' = Ret("thrown", Undefined, Undefined, message, Undefined)
    /\ pc' = "mFinallyPage"

\* an exception inside the try block: the catch block computes the error
\* bundle, then the finally block runs
MainThrow(message) ==
    /\ error' = message /\ primary' = message
    /\ pending' = ErrorBundle(message)
    /\ pc' = "mFinallyPage"

\* `browser = await chromium.launch(...)`
MainLaunch(ok) ==
    /\ program = "main" /\ pc = "mLaunch"
    /\ touched' = TRUE
    /\ IF ok
       THEN /\ lbrowser' = "open" /\ pc' = "mContext"
            /\ UNCHANGED <<error, primary, pending>>
       ELSE MainThrow("launch") /\ UNCHANGED lbrowser
    /\ UNCHANGED <<program, sessionVars, cache, req, retries, calls, delays, page,
                   leaked, closeCalls, idx, results, ret, sinceLast, prev, ncalls,
                   faultsUsed, keyVars, closing, sideVars>>

\* `const context = await browser.newContext(...)`
MainNewContext(ok) ==
    /\ program = "main" /\ pc = "mContext"
    /\ IF ok
       THEN pc' = "mNewPage" /\ UNCHANGED <<error, primary, pending>>
       ELSE MainThrow("context")
    /\ UNCHANGED <<program, sessionVars, cache, callVars, page, lbrowser,
                   closeCalls, idx, results, ret,
                   faultsUsed, keyVars, closing, sideVars>>

\* `page = await context.newPage()`
MainNewPage(ok) ==
    /\ program = "main" /\ pc = "mNewPage"
    /\ IF ok
       THEN /\ page' = "open" /\ pc' = "mRoute"
            /\ UNCHANGED <<error, primary, pending>>
       ELSE MainThrow("newPage") /\ UNCHANGED page
    /\ UNCHANGED <<program, sessionVars, cache, req, retries, calls, delays,
                   lbrowser, leaked, closeCalls, idx, results, touched, ret, sinceLast, prev,
                   ncalls,
                   faultsUsed, keyVars, closing, sideVars>>

\* createBlockRules(options).length > 0
HasBlockRules(options) == options.blockAds \/ options.blockTrackers \/ options.blockMedia

\* `await page.route('**/*', ...)`, inside the try block
MainRoute(ok) ==
    /\ program = "main" /\ pc = "mRoute"
    /\ ~HasBlockRules(req.options) => ok
    /\ IF ok
       THEN pc' = "mGoto" /\ UNCHANGED <<error, primary, pending>>
       ELSE MainThrow("route")
    /\ UNCHANGED <<program, sessionVars, cache, callVars, page, lbrowser,
                   closeCalls, idx, results, ret,
                   faultsUsed, keyVars, closing, sideVars>>

\* `await page.goto(url, ...)`
MainGoto(ok) ==
    /\ program = "main" /\ pc = "mGoto"
    /\ ok => IsUrl(req.url)
    /\ IF ok
       THEN /\ pc' = (IF req.options.waitForNetworkIdle THEN "mWait" ELSE "mExtract")
            /\ UNCHANGED <<error, primary, pending>>
       ELSE MainThrow("goto")
    /\ UNCHANGED <<program, sessionVars, cache, callVars, page, lbrowser,
                   closeCalls, idx, results, ret,
                   faultsUsed, keyVars, closing, sideVars>>

\* `await page.waitForLoadState('networkidle', ...).catch(() => {...})`
MainWait(ok) ==
    /\ program = "main" /\ pc = "mWait"
    /\ pc' = "mExtract"
    /\ UNCHANGED <<program, sessionVars, cache, callVars, attemptVars, ret,
                   keyVars, closing, sideVars>>

\* page.title(), processSelectors, the result bundle, resultsCache.set
MainExtract(faults) ==
    /\ program = "main" /\ pc = "mExtract"
    /\ faultsUsed' = faults
    /\ LET o == processSelectors(req.selectors, faults)
           result == Ret("returned", Obj(o.map), Bool(FALSE), "", Undefined)
       IN  IF o.threw
           THEN MainThrow("selector") /\ UNCHANGED <<results, cache>>
           ELSE /\ results' = o.map
                /\ cache' = (IF req.options.useCache
                             THEN CacheSet(cache, createCacheKey(req.url, req.selectors),
                                           result)
                             ELSE cache)
                /\ pending' = result
                /\ pc' = "mFinallyPage"
                /\ UNCHANGED <<error, primary>>
    /\ UNCHANGED <<program, sessionVars, callVars, page, lbrowser, closeCalls, idx,
                   ret,
                   keyVars, closing, sideVars>>

\* finally: `if (page) await page.close().catch(() => {})`
MainFinallyPage(ok) ==
    /\ program = "main" /\ pc = "mFinallyPage"
    /\ faultsUsed' = <<>>
    /\ page = "none" => ok
    /\ closeCalls' = (IF page = "none" THEN closeCalls ELSE closeCalls + 1)
    /\ page' = (IF page = "open" /\ ok THEN "closed" ELSE page)
    /\ pc' = "mFinallyBrowser"
    /\ UNCHANGED <<program, sessionVars, cache, req, retries, calls, delays,
                   lbrowser, leaked, idx, results, error, primary, touched, pending,
                   ret, sinceLast, prev, ncalls,
                   keyVars, closing, sideVars>>

\* finally: `if (browser) await browser.close().catch(() => {})`, then the
\* function returns the value computed by the try or the catch block
MainFinallyBrowser(ok) ==
    /\ program = "main" /\ pc = "mFinallyBrowser"
    /\ lbrowser = "none" => ok
    /\ lbrowser' = (IF lbrowser = "open"
                    THEN (IF ok THEN "closed" ELSE "closeFailed")
                    ELSE lbrowser)
    /\ leaked' = (IF page = "open" /\ closeCalls = 0 THEN leaked + 1 ELSE leaked)
    /\ ret' = pending
    /\ sinceLast' = 0
    /\ pc' = "idle"
    /\ UNCHANGED <<program, sessionVars, cache, req, retries, calls, delays, page,
                   closeCalls, idx, results, error, primary, touched,
                   pending, prev, ncalls,
                   faultsUsed, keyVars, closing, sideVars>>

FaultLists(n) == [1..n -> Faults]

\* the steps of a scrapeSingleUrl call under way
MainSteps ==
    \/ \E ok \in BOOLEAN : MainLaunch(ok)
    \/ \E ok \in BOOLEAN : MainNewContext(ok)
    \/ \E ok \in BOOLEAN : MainNewPage(ok)
    \/ \E ok \in BOOLEAN : MainRoute(ok)
    \/ \E ok \in BOOLEAN : MainGoto(ok)
    \/ \E ok \in BOOLEAN : MainWait(ok)
    \/ \E faults \in FaultLists(Len(req.selectors)) : MainExtract(faults)
    \/ \E ok \in BOOLEAN : MainFinallyPage(ok)
    \/ \E ok \in BOOLEAN : MainFinallyBrowser(ok)

NextMain ==
    \/ \E u \in Urls, sl \in ValidSelectorLists, o \in OptionSets :
         ScrapeSingleUrl(u, sl, o)
    \/ MainSteps

\* the steps of a scrape call under way, and close()
AppSteps ==
    \/ \E outcome \in {"ok", "launchFail", "contextFail"} : Initialize(outcome)
    \/ \E ok \in BOOLEAN : NewPage(ok)
    \/ \E ok \in BOOLEAN : SetupResourceBlocking(ok)
    \/ \E ok \in BOOLEAN : Goto(ok)
    \/ \E ok \in BOOLEAN : WaitForLoadState(ok)
    \/ \E fault \in Faults : ExtractStep(fault)
    \/ \E ok \in BOOLEAN : ClosePage(ok)
    \/ \E ok \in BOOLEAN : CatchClose(ok)
    \/ RetryCatch
    \/ Delay
    \/ \E c \in BOOLEAN, b \in BOOLEAN : CloseService(c, b)

NextApp ==
    \/ \E u \in Urls, sl \in RawSelectorLists, o \in OptionSets : Scrape(u, sl, o)
    \/ AppSteps

Next == NextApp \/ NextMain \/ Tick

Spec == Init /\ [][Next]_vars

TypeOK ==
    /\ pc \in {"idle", "fn", "newPage", "route", "goto", "waitIdle", "extract",
               "close", "catch", "retryCatch", "delay", "mLaunch", "mContext",
               "mNewPage", "mRoute", "mGoto", "mWait", "mExtract", "mFinallyPage",
               "mFinallyBrowser"}
    /\ retries \in 0..maxRetries

(***************************************************************************)
(* Extraction runs: the attempt stands after a successful navigation, for  *)
(* a larger set of selector lists                                          *)
(***************************************************************************)
N1 == Str(<<"n", "1">>)
N2 == Str(<<"n", "2">>)

ExtractQueries == {QH1, QA, QP, QBAD}
ExtractTypes == {TEXT, INNERTEXT, HTML, ATTRIBUTE, COUNT, EXISTS}

\* the selectors requestSchema accepts (type and multiple are defaulted)
ValidDescriptors(name) ==
    {Selector(name, Str(q), Str(t), Bool(m), a) :
        q \in ExtractQueries, t \in ExtractTypes, m \in BOOLEAN,
        a \in {Undefined, Str(HREF)}}

\* entries only an unvalidated body can carry
MalformedDescriptors(name) ==
    {Null,
     Selector(name, Undefined, Str(TEXT), Bool(TRUE), Undefined),
     Selector(Undefined, Str(QH1), Str(TEXT), Bool(FALSE), Undefined),
     Selector(name, Str(QH1), Undefined, Bool(TRUE), Undefined),
     Selector(name, Str(QA), Str(TEXT), Undefined, Undefined)}

Sibling == Selector(N2, Str(QH1), Str(TEXT), Bool(FALSE), Undefined)

Troublemakers(name) ==
    {Selector(name, Str(QBAD), Str(TEXT), Bool(TRUE), Undefined),
     Selector(name, Str(QA), Str(ATTRIBUTE), Bool(TRUE), Str(HREF)),
     Selector(name, Str(QP), Str(COUNT), Bool(FALSE), Undefined)}

ValidExtractLists ==
    {<<d>> : d \in ValidDescriptors(N1)}
        \cup {<<d, Sibling>> : d \in Troublemakers(N1)}

RawExtractLists ==
    ValidExtractLists
        \cup {<<d>> : d \in MalformedDescriptors(N1)}
        \cup {<<d, Sibling>> : d \in MalformedDescriptors(N1)}
        \cup {<<Sibling, d>> : d \in MalformedDescriptors(N1)}

DefaultOptions == Options(TRUE, TRUE, TRUE, FALSE, TRUE)

\* the state of a first attempt whose navigation has succeeded
InitExtract ==
    /\ program \in {"app", "main"}
    /\ req \in {Request(URL, sl, DefaultOptions) :
                  sl \in IF program = "app" THEN RawExtractLists ELSE ValidExtractLists}
    /\ pc = (IF program = "app" THEN "extract" ELSE "mExtract")
    /\ browser = (IF program = "app" THEN 1 ELSE 0)
    /\ context = browser /\ launches = browser
    /\ cache = EmptyCache
    /\ retries = (IF program = "app" THEN maxRetries ELSE 0)
    /\ calls = (IF program = "app" THEN 1 ELSE 0)
    /\ delays = 0
    /\ page = "open"
    /\ lbrowser = (IF program = "app" THEN "none" ELSE "open")
    /\ leaked = 0 /\ closeCalls = 0
    /\ idx = 1 /\ results = EmptyMap
    /\ error = "" /\ primary = ""
    /\ touched = TRUE
    /\ pending = NoRet
    /\ ret = NoRet
    /\ sinceLast = 0
    /\ prev = NoPrev
    /\ ncalls = 1
    /\ faultsUsed = <<>>
    /\ keyA = <<>> /\ keyB = <<>> /\ keyPhase = "start"
    /\ keyStored = <<>> /\ keyHit = <<>>
    /\ dead = FALSE /\ closing = NoClosing
    /\ intercept = NoIntercept /\ cleared = NoCleared
    /\ tasks = NoTasks /\ http = NoHttp /\ batch = NoBatch

NextExtract ==
    \/ \E fault \in Faults : ExtractStep(fault)
    \/ \E faults \in FaultLists(Len(req.selectors)) : MainExtract(faults)

SpecExtract == InitExtract /\ [][NextExtract]_vars

(***************************************************************************)
(* Cache-key runs: a call stores an entry for (URL, keyA); a later call    *)
(* looks up (URL, keyB)                                                    *)
(***************************************************************************)
KeyStrings == {<<"a">>, <<"a", "\"">>, <<"\\">>}

KeyDescriptors ==
    {Selector(N1, Str(q), Str(t), m, a) :
        q \in KeyStrings, t \in {TEXT, COUNT},
        m \in {Bool(TRUE), Bool(FALSE), Undefined},
        a \in {Undefined, Str(HREF), Str(<<"a", "\"">>)}}

KeyLists ==
    {<<d>> : d \in KeyDescriptors}
        \cup {<<d, Sibling>> : d \in Troublemakers(N1)}
        \cup {<<Sibling, d>> : d \in Troublemakers(N1)}

InitKey ==
    /\ keyA \in KeyLists /\ keyB \in KeyLists
    /\ keyPhase = "start"
    /\ keyStored = <<>> /\ keyHit = <<>>
    /\ dead = FALSE /\ closing = NoClosing
    /\ intercept = NoIntercept /\ cleared = NoCleared
    /\ tasks = NoTasks /\ http = NoHttp /\ batch = NoBatch
    /\ program = "app"
    /\ browser = 0 /\ context = 0 /\ launches = 0
    /\ cache = EmptyCache
    /\ req = NoRequest
    /\ pc = "idle"
    /\ retries = 0 /\ calls = 0 /\ delays = 0
    /\ page = "none" /\ lbrowser = "none"
    /\ leaked = 0 /\ closeCalls = 0
    /\ idx = 1 /\ results = EmptyMap
    /\ error = "" /\ primary = ""
    /\ touched = FALSE
    /\ pending = NoRet
    /\ ret = NoRet
    /\ sinceLast = 0
    /\ prev = NoPrev
    /\ ncalls = 0
    /\ faultsUsed = <<>>

\* the keys scraper.js and main.js compute when the first call stores its result
StoreKeys ==
    /\ keyPhase = "start"
    /\ keyStored' = [app |-> ScrapeCacheKey(URL, keyA), main |-> createCacheKey(URL, keyA)]
    /\ keyPhase' = "stored"
    /\ UNCHANGED <<scrapeVars, faultsUsed, keyA, keyB, keyHit, closing, sideVars>>

\* cache.get(key) of the later call: a hit when its key is the stored key
LookupKeys ==
    /\ keyPhase = "stored"
    /\ keyHit' = [app |-> ScrapeCacheKey(URL, keyB) = keyStored.app,
                  main |-> createCacheKey(URL, keyB) = keyStored.main]
    /\ keyPhase' = "looked"
    /\ UNCHANGED <<scrapeVars, faultsUsed, keyA, keyB, keyStored, closing, sideVars>>

NextKey == StoreKeys \/ LookupKeys

SpecKey == InitKey /\ [][NextKey]_vars

(***************************************************************************)
(* Resource blocking: the handlers installed with page.route('**/*', ...)  *)
(***************************************************************************)
UPPER ==
    <<"A", "B", "C", "D", "E", "F", "G", "H", "I", "J", "K", "L", "M", "N",
      "O", "P", "Q", "R", "S", "T", "U", "V", "W", "X", "Y", "Z">>
LOWER ==
    <<"a", "b", "c", "d", "e", "f", "g", "h", "i", "j", "k", "l", "m", "n",
      "o", "p", "q", "r", "s", "t", "u", "v", "w", "x", "y", "z">>

\* String.prototype.toLowerCase, on ASCII
ToLowerCase(s) ==
    [i \in 1..Len(s) |->
        IF \E j \in 1..Len(UPPER) : UPPER[j] = s[i]
        THEN LOWER[CHOOSE j \in 1..Len(UPPER) : UPPER[j] = s[i]]
        ELSE s[i]]

\* s has sub at (0-based) offset i
HasAt(s, sub, i) == i + Len(sub) <= Len(s) /\ SubSeq(s, i + 1, i + Len(sub)) = sub

\* String.prototype.includes
Includes(s, sub) == \E i \in 0..Len(s) : HasAt(s, sub, i)

\* ScraperService.BLOCKED_DOMAINS_KEYWORDS, without ' реклама ': request.url()
\* is percent-encoded ASCII and holds no space, so that keyword never matches
BLOCKED_DOMAINS_KEYWORDS ==
    {<<"a", "d", "s", "e", "r", "v", "i", "c", "e">>,
     <<"a", "n", "a", "l", "y", "t", "i", "c", "s">>,
     <<"b", "e", "a", "c", "o", "n">>,
     <<"d", "o", "u", "b", "l", "e", "c", "l", "i", "c", "k">>,
     <<"g", "o", "o", "g", "l", "e", "t", "a", "g", "m", "a", "n", "a", "g",
     "e", "r">>,
     <<"g", "o", "o", "g", "l", "e", "-", "a", "n", "a", "l", "y", "t", "i",
     "c", "s">>,
     <<"f", "a", "c", "e", "b", "o", "o", "k", ".", "c", "o", "m", "/", "t",
     "r", "/">>,
     <<"p", "i", "x", "e", "l">>,
     <<"t", "r", "a", "c", "k">>,
     <<"s", "c", "o", "r", "e", "c", "a", "r", "d", "r", "e", "s", "e", "a",
     "r", "c", "h">>,
     <<"a", "d", "n", "x", "s">>,
     <<"a", "d", "f", "o", "r", "m">>,
     <<"a", "d", "r", "o", "l", "l">>,
     <<"a", "d", "s", "y", "s", "t", "e", "m">>,
     <<"r", "u", "b", "i", "c", "o", "n", "p", "r", "o", "j", "e", "c",
     "t">>,
     <<"o", "p", "e", "n", "x">>,
     <<"c", "r", "i", "t", "e", "o">>,
     <<".", "a", "d", "s", ".">>,
     <<"/", "a", "d", "s", "/">>,
     <<"g", "o", "o", "g", "l", "e", "a", "d", "s", "e", "r", "v", "i", "c",
     "e", "s">>,
     <<"a", "p", "p", "s", "f", "l", "y", "e", "r">>,
     <<"o", "u", "t", "b", "r", "a", "i", "n">>,
     <<"t", "a", "b", "o", "o", "l", "a">>,
     <<"y", "i", "e", "l", "d", "i", "f", "y">>}

DOTCOM == <<".", "c", "o", "m">>
LOGIN == <<"l", "o", "g", "i", "n">>

\* the alternatives of the urlPattern of the blockAds rule
AdNames ==
    {<<"g", "o", "o", "g", "l", "e", "a", "d", "s", "e", "r", "v", "i", "c",
     "e", "s">>,
     <<"d", "o", "u", "b", "l", "e", "c", "l", "i", "c", "k">>,
     <<"a", "d", "s", "e", "r", "v", "i", "c", "e">>,
     <<"a", "d", "s", "y", "s", "t", "e", "m">>,
     <<"a", "d", "n", "x", "s">>,
     <<"a", "d", "v", "e", "r", "t", "i", "s", "i", "n", "g">>}

\* the alternatives of the urlPattern of the blockTrackers rule
TrackerNames ==
    {<<"g", "o", "o", "g", "l", "e", "-", "a", "n", "a", "l", "y", "t", "i",
     "c", "s">>,
     <<"g", "o", "o", "g", "l", "e", "t", "a", "g", "m", "a", "n", "a", "g",
     "e", "r">>,
     <<"f", "a", "c", "e", "b", "o", "o", "k">>,
     <<"t", "w", "i", "t", "t", "e", "r">>,
     <<"l", "i", "n", "k", "e", "d", "i", "n">>}

\* the alternatives of the urlPattern of the blockMedia rule
MediaExtensions ==
    {<<"m", "p", "4">>,
     <<"w", "e", "b", "m">>,
     <<"o", "g", "g">>,
     <<"m", "p", "3">>,
     <<"a", "v", "i">>,
     <<"m", "o", "v">>,
     <<"f", "l", "v">>}

\* /.*(?:googleadservices|...|advertising)\.com.*/.test(url)
AdUrlPattern(url) == \E n \in AdNames : Includes(url, n \o DOTCOM)

\* /.*(?:google-analytics|...|linkedin)\.com\/(?!login).*/.test(url)
TrackerUrlPattern(url) ==
    \E n \in TrackerNames, i \in 0..Len(url) :
        /\ HasAt(url, n \o DOTCOM \o <<"/">>, i)
        /\ ~HasAt(url, LOGIN, i + Len(n) + Len(DOTCOM) + 1)

\* /.*\.(?:mp4|...|flv)(?:\?.*)?$/.test(url)
MediaUrlPattern(url) ==
    \E e \in MediaExtensions, i \in 0..Len(url) :
        /\ HasAt(url, <<".">> \o e, i)
        /\ \/ i + 1 + Len(e) = Len(url)
           \/ HasAt(url, <<"?">>, i + 1 + Len(e))

\* createBlockRules(options): the rules in the order they are pushed
createBlockRules(options) ==
    (IF options.blockAds
     THEN <<[urlPattern |-> "ad", resourceType |-> {"script", "xhr", "fetch", "image"}]>>
     ELSE <<>>)
    \o (IF options.blockTrackers
        THEN <<[urlPattern |-> "tracker", resourceType |-> {"script", "xhr", "fetch"}]>>
        ELSE <<>>)
    \o (IF options.blockMedia
        THEN <<[urlPattern |-> "media", resourceType |-> {"media"}]>>
        ELSE <<>>)

\* rule.urlPattern.test(requestUrl)
UrlPatternTest(pattern, url) ==
    CASE pattern = "ad" -> AdUrlPattern(url)
      [] pattern = "tracker" -> TrackerUrlPattern(url)
      [] OTHER -> MediaUrlPattern(url)

\* main.js: what happens to a request of the page; without rules no handler
\* is installed and the request goes out
MainRouteHandler(options, url, resourceType) ==
    LET blockRules == createBlockRules(options)
    IN  IF \E i \in 1..Len(blockRules) :
               /\ resourceType \in blockRules[i].resourceType
               /\ UrlPatternTest(blockRules[i].urlPattern, url)
        THEN "abort"
        ELSE "continue"

\* scraper.js: `if (blockMedia && ['image', 'media', 'font'].includes(resourceType))`
BlocksMedia(options, resourceType) ==
    options.blockMedia /\ resourceType \in {"image", "media", "font"}

\* scraper.js: what happens to a request of the page; _setupResourceBlocking
\* installs no handler when no flag is set
ScrapeRouteHandler(options, url, resourceType) ==
    IF ~InstallsRoute(options) THEN "continue"
    ELSE LET reqUrl == ToLowerCase(url)
         IN  IF /\ options.blockAds \/ options.blockTrackers
                /\ \E keyword \in BLOCKED_DOMAINS_KEYWORDS : Includes(reqUrl, keyword)
             THEN "abort"
             ELSE IF BlocksMedia(options, resourceType) THEN "abort"
             ELSE "continue"

UrlAd ==
    <<"h", "t", "t", "p", "s", ":", "/", "/", "d", "o", "u", "b", "l", "e",
    "c", "l", "i", "c", "k", ".", "c", "o", "m", "/", "a", ".", "j", "s">>
UrlAdUpper ==
    <<"h", "t", "t", "p", "s", ":", "/", "/", "D", "o", "u", "b", "l", "e",
    "C", "l", "i", "c", "k", ".", "c", "o", "m", "/", "a", ".", "j", "s">>
UrlTracker ==
    <<"h", "t", "t", "p", "s", ":", "/", "/", "g", "o", "o", "g", "l", "e",
    "-", "a", "n", "a", "l", "y", "t", "i", "c", "s", ".", "c", "o", "m", "/",
    "c">>
UrlTrackerLogin ==
    <<"h", "t", "t", "p", "s", ":", "/", "/", "f", "a", "c", "e", "b", "o",
    "o", "k", ".", "c", "o", "m", "/", "l", "o", "g", "i", "n">>
UrlVideo ==
    <<"h", "t", "t", "p", "s", ":", "/", "/", "c", "d", "n", ".", "s", "i",
    "t", "e", ".", "o", "r", "g", "/", "v", ".", "m", "p", "4", "?", "x">>
UrlPlain ==
    <<"h", "t", "t", "p", "s", ":", "/", "/", "s", "i", "t", "e", ".", "o",
    "r", "g", "/", "a", "p", "p", ".", "j", "s">>
UrlTrackPath ==
    <<"h", "t", "t", "p", "s", ":", "/", "/", "s", "i", "t", "e", ".", "o",
    "r", "g", "/", "t", "r", "a", "c", "k", "/", "p", ".", "p", "n", "g">>

RequestUrls ==
    {UrlAd, UrlAdUpper, UrlTracker, UrlTrackerLogin, UrlVideo, UrlPlain, UrlTrackPath}

\* request.resourceType()
ResourceTypes == {"document", "script", "image", "media", "font", "xhr"}

BlockFlags ==
    {Options(TRUE, a, t, m, TRUE) : a \in BOOLEAN, t \in BOOLEAN, m \in BOOLEAN}

\* a page whose options are given issues one request
InitIntercept ==
    /\ intercept \in {[phase |-> "pending", options |-> o, url |-> u,
                       resourceType |-> r, app |-> "", main |-> ""] :
                         o \in BlockFlags, u \in RequestUrls, r \in ResourceTypes}
    /\ program = "app"
    /\ browser = 0 /\ context = 0 /\ launches = 0
    /\ cache = EmptyCache
    /\ req = NoRequest
    /\ pc = "idle"
    /\ retries = 0 /\ calls = 0 /\ delays = 0
    /\ page = "none" /\ lbrowser = "none"
    /\ leaked = 0 /\ closeCalls = 0
    /\ idx = 1 /\ results = EmptyMap
    /\ error = "" /\ primary = ""
    /\ touched = FALSE
    /\ pending = NoRet
    /\ ret = NoRet
    /\ sinceLast = 0
    /\ prev = NoPrev
    /\ ncalls = 0
    /\ faultsUsed = <<>>
    /\ keyA = <<>> /\ keyB = <<>> /\ keyPhase = "start"
    /\ keyStored = <<>> /\ keyHit = <<>>
    /\ dead = FALSE /\ closing = NoClosing
    /\ cleared = NoCleared
    /\ tasks = NoTasks /\ http = NoHttp /\ batch = NoBatch

\* the request reaches the handler of scraper.js and the handler of main.js
RouteRequest ==
    /\ intercept.phase = "pending"
    /\ intercept' =
         [intercept EXCEPT
            !.phase = "decided",
            !.app = ScrapeRouteHandler(intercept.options, intercept.url,
                                       intercept.resourceType),
            !.main = MainRouteHandler(intercept.options, intercept.url,
                                      intercept.resourceType)]
    /\ UNCHANGED <<scrapeVars, faultsUsed, keyVars, closing, cleared, tasks, http,
                   batch>>

NextIntercept == RouteRequest

SpecIntercept == InitIntercept /\ [][NextIntercept]_vars

(***************************************************************************)
(* Clearing the cache: ScraperService.clearCache behind DELETE /cache, and *)
(* DELETE /api/cache, DELETE /api/cache/:url of main.js                    *)
(***************************************************************************)
\* String.prototype.startsWith
StartsWith(s, prefix) == HasAt(s, prefix, 0)

\* the escape sequences of the strings of the model and the characters they
\* stand for
PercentCodes ==
    (<<"4", "1">> :> "A") @@ (<<"2", "5">> :> "%") @@ (<<"3", "A">> :> ":")

\* decodeURIComponent: ok = FALSE is the URIError thrown for a "%" that no two
\* hexadecimal digits follow
RECURSIVE DecodeURIComponent(_)
DecodeURIComponent(s) ==
    IF s = <<>> THEN [ok |-> TRUE, str |-> <<>>]
    ELSE IF Head(s) # "%"
         THEN LET rest == DecodeURIComponent(Tail(s))
              IN  [ok |-> rest.ok, str |-> <<Head(s)>> \o rest.str]
    ELSE IF Len(s) < 3 \/ SubSeq(s, 2, 3) \notin DOMAIN PercentCodes
         THEN [ok |-> FALSE, str |-> <<>>]
    ELSE LET rest == DecodeURIComponent(SubSeq(s, 4, Len(s)))
         IN  [ok |-> rest.ok, str |-> <<PercentCodes[SubSeq(s, 2, 3)]>> \o rest.str]

\* urls of earlier scrape calls; UrlEscaped holds an escape sequence
UrlA == <<"h", ":", "a">>
UrlAB == <<"h", ":", "a", "b">>
UrlB == <<"h", ":", "b">>
UrlEscaped == <<"h", ":", "%", "4", "1">>

CachedUrls == {UrlA, UrlAB, UrlB, UrlEscaped}

\* the key under which the running program caches a scrape of url
ProgramCacheKey(prog, url) ==
    IF prog = "app" THEN ScrapeCacheKey(url, <<SelTitle>>)
    ELSE createCacheKey(url, <<SelTitle>>)

\* entries of different ages; the one of UrlB has expired and was not yet swept
EntryAge(url) == IF url = UrlAB THEN TickStep ELSE IF url = UrlB THEN MaxTime ELSE 0

CacheOf(prog, urls) ==
    LET keys == {ProgramCacheKey(prog, u) : u \in urls}
        urlOf(k) == CHOOSE u \in urls : ProgramCacheKey(prog, u) = k
    IN  [k \in keys |->
           [val |-> Ret("returned", Obj(EmptyMap), Undefined, "", Undefined),
            age |-> EntryAge(urlOf(k))]]

\* req.query.url of DELETE /api/scraper/cache
QueryTargets ==
    {Undefined, Str(<<>>), Str(UrlA), Str(UrlAB), Str(<<"h", ":">>), Str(<<"x">>),
     Str(UrlEscaped)}

\* req.params.url of DELETE /api/cache/:url, the target the client named:
\* Express has decoded the path segment once
ParamTargets ==
    {UrlA, UrlAB, <<"h", ":">>, <<"x">>, UrlEscaped, <<"h", "%", "3", "A", "a">>,
     <<"%">>}

\* cache.keys().filter(key => key.startsWith(url))
KeysStartingWith(c, url) == {k \in DOMAIN c : StartsWith(k, url)}

\* cache.del(keys): the entries are removed, the count of removed keys returned
CacheDel(c, keys) == [k \in DOMAIN c \ keys |-> c[k]]

\* cache.flushAll() of node-cache returns nothing
FlushAllReturn == Undefined

Cleared(target, before, reported, status) ==
    [phase |-> "done", target |-> target, before |-> before, reported |-> reported,
     status |-> status]

InitClear ==
    /\ program \in {"app", "main"}
    /\ cache \in {CacheOf(program, urls) : urls \in SUBSET CachedUrls}
    /\ cleared = [phase |-> "ready"]
    /\ browser = 0 /\ context = 0 /\ launches = 0
    /\ req = NoRequest
    /\ pc = "idle"
    /\ retries = 0 /\ calls = 0 /\ delays = 0
    /\ page = "none" /\ lbrowser = "none"
    /\ leaked = 0 /\ closeCalls = 0
    /\ idx = 1 /\ results = EmptyMap
    /\ error = "" /\ primary = ""
    /\ touched = FALSE
    /\ pending = NoRet
    /\ ret = NoRet
    /\ sinceLast = 0
    /\ prev = NoPrev
    /\ ncalls = 0
    /\ faultsUsed = <<>>
    /\ keyA = <<>> /\ keyB = <<>> /\ keyPhase = "start"
    /\ keyStored = <<>> /\ keyHit = <<>>
    /\ dead = FALSE /\ closing = NoClosing
    /\ intercept = NoIntercept
    /\ tasks = NoTasks /\ http = NoHttp /\ batch = NoBatch

clearUnchanged ==
    <<program, sessionVars, req, pc, retries, calls, delays, page, lbrowser,
      leaked, closeCalls, idx, results, error, primary, touched, pending, ret,
      sinceLast, prev, ncalls, faultsUsed, keyVars, closing, intercept, tasks,
      http, batch>>

\* DELETE /api/scraper/cache?url=...: scraperService.clearCache(url), then
\* res.json({ message })
ClearCache(url) ==
    /\ program = "app" /\ pc = "idle" /\ cleared.phase = "ready"
    /\ cache' = (IF Truthy(url) THEN CacheDel(cache, KeysStartingWith(cache, url.str))
                 ELSE EmptyCache)
    /\ cleared' = Cleared(url, cache, Undefined, 200)
    /\ UNCHANGED clearUnchanged

\* DELETE /api/cache: keysDeleted = resultsCache.flushAll()
DeleteCache ==
    /\ program = "main" /\ pc = "idle" /\ cleared.phase = "ready"
    /\ cache' = EmptyCache
    /\ cleared' = Cleared(Undefined, cache, FlushAllReturn, 200)
    /\ UNCHANGED clearUnchanged

\* DELETE /api/cache/:url: the parameter is decoded (again), the keys that
\* start with the result are deleted one by one and counted; a URIError
\* leaves the handler and the request ends with status 500
DeleteCacheUrl(param) ==
    /\ program = "main" /\ pc = "idle" /\ cleared.phase = "ready"
    /\ LET url == DecodeURIComponent(param)
           keys == KeysStartingWith(cache, url.str)
       IN  IF url.ok
           THEN /\ cache' = CacheDel(cache, keys)
                /\ cleared' = Cleared(Str(param), cache, Num(Cardinality(keys)), 200)
           ELSE /\ cache' = cache
                /\ cleared' = [Cleared(Str(param), cache, Undefined, 500)
                                 EXCEPT !.phase = "failed"]
    /\ UNCHANGED clearUnchanged

NextClear ==
    \/ \E url \in QueryTargets : ClearCache(url)
    \/ DeleteCache
    \/ \E param \in ParamTargets : DeleteCacheUrl(param)

SpecClear == InitClear /\ [][NextClear]_vars

(***************************************************************************)
(* Concurrent scrape calls on the one ScraperService: the steps of         *)
(* `await this.initialize(); const page = await this.context.newPage()`    *)
(* between their awaits                                                    *)
(***************************************************************************)
\* scrape calls in flight at once
MaxTasks == 3

Tasks == 1..MaxTasks

InitConcurrent ==
    /\ tasks = [phase |-> "on",
                pc |-> [t \in Tasks |-> "start"],
                from |-> [t \in Tasks |-> 0],
                page |-> [t \in Tasks |-> 0],
                contexts |-> 0,
                current |-> 0]
    /\ program = "app"
    /\ browser = 0 /\ context = 0 /\ launches = 0
    /\ cache = EmptyCache
    /\ req = NoRequest
    /\ pc = "idle"
    /\ retries = 0 /\ calls = 0 /\ delays = 0
    /\ page = "none" /\ lbrowser = "none"
    /\ leaked = 0 /\ closeCalls = 0
    /\ idx = 1 /\ results = EmptyMap
    /\ error = "" /\ primary = ""
    /\ touched = FALSE
    /\ pending = NoRet
    /\ ret = NoRet
    /\ sinceLast = 0
    /\ prev = NoPrev
    /\ ncalls = 0
    /\ faultsUsed = <<>>
    /\ keyA = <<>> /\ keyB = <<>> /\ keyPhase = "start"
    /\ keyStored = <<>> /\ keyHit = <<>>
    /\ dead = FALSE /\ closing = NoClosing
    /\ intercept = NoIntercept /\ cleared = NoCleared
    /\ http = NoHttp /\ batch = NoBatch

concurrentUnchanged ==
    <<program, cache, req, pc, retries, calls, delays, page, lbrowser, leaked,
      closeCalls, idx, results, error, primary, touched, pending, ret, sinceLast,
      prev, ncalls, faultsUsed, keyVars, dead, closing, intercept, cleared, http,
      batch>>

\* initialize() from `if (!this.context)` on, run without a break: either
\* this.browser.newContext() is called (on the browser b that this.browser
\* holds at that moment) and awaited, or initialize() returns
ContextCheck(t, b) ==
    IF ContextMissing(context)
    THEN [tasks EXCEPT !.pc[t] = "creating", !.from[t] = b]
    ELSE [tasks EXCEPT !.pc[t] = "ready"]

\* a call enters initialize(): `if (!this.browser)` and, when a browser is
\* there, `if (!this.context)`; chromium.launch() is called and awaited
InitializeEnter(t) ==
    /\ tasks.pc[t] = "start"
    /\ tasks' = (IF BrowserMissing(browser)
                 THEN [tasks EXCEPT !.pc[t] = "launching"]
                 ELSE ContextCheck(t, browser))
    /\ UNCHANGED <<browser, context, launches, concurrentUnchanged>>

\* the launch of task t resolves: `this.browser = await ...launch(...)`
LaunchResolved(t) ==
    /\ tasks.pc[t] = "launching"
    /\ browser' = launches + 1
    /\ launches' = launches + 1
    /\ tasks' = ContextCheck(t, launches + 1)
    /\ UNCHANGED <<context, concurrentUnchanged>>

\* the newContext() of task t resolves: `this.context = await ...newContext(...)`
ContextResolved(t) ==
    /\ tasks.pc[t] = "creating"
    /\ context' = tasks.from[t]
    /\ tasks' = [tasks EXCEPT !.pc[t] = "ready",
                              !.contexts = tasks.contexts + 1,
                              !.current = tasks.contexts + 1]
    /\ UNCHANGED <<browser, launches, concurrentUnchanged>>

\* `const page = await this.context.newPage()`: the page is made from the
\* context that this.context holds now
TaskNewPage(t) ==
    /\ tasks.pc[t] = "ready"
    /\ tasks' = [tasks EXCEPT !.pc[t] = "paged", !.page[t] = tasks.current]
    /\ UNCHANGED <<browser, context, launches, concurrentUnchanged>>

NextConcurrent ==
    \E t \in Tasks :
        \/ InitializeEnter(t)
        \/ LaunchResolved(t)
        \/ ContextResolved(t)
        \/ TaskNewPage(t)

SpecConcurrent == InitConcurrent /\ [][NextConcurrent]_vars

(***************************************************************************)
(* Session loss: the browser process behind the shared session exits while *)
(* the service is idle between calls                                       *)
(***************************************************************************)
InitCrash == Init /\ program = "app"

\* the browser launched by initialize() exits; the service holds no
\* 'disconnected' listener, so this.browser and this.context stay as they are
Crash ==
    /\ program = "app" /\ pc = "idle"
    /\ browser # 0 /\ context # 0
    /\ ~dead
    /\ dead' = TRUE
    /\ UNCHANGED <<program, browser, context, launches, cache, req, pc, retries,
                   calls, delays, page, lbrowser, leaked, closeCalls, idx,
                   results, error, primary, touched, pending, ret, sinceLast,
                   prev, ncalls, faultsUsed, keyVars, closing, sideVars>>

NextCrash == Crash \/ NextApp \/ Tick

SpecCrash == InitCrash /\ [][NextCrash]_vars

(***************************************************************************)
(* Request validation: the two POST handlers decide on a request body      *)
(* before the scrape call is made                                          *)
(***************************************************************************)
IsList(v) == DOMAIN v = {"list"}

SelNoName == Selector(Undefined, Str(QH1), Str(TEXT), Bool(FALSE), Undefined)
SelNoQuery == Selector(NTITLE, Undefined, Str(TEXT), Bool(FALSE), Undefined)
SelDefaults == Selector(NTITLE, Str(QH1), Undefined, Undefined, Undefined)

\* request bodies after express.json(): no options member
BodyUrls == {Undefined, Str(<<>>), Str(UrlMalformed), Str(URL)}
BodySelectors ==
    {Undefined, List(<<SelTitle>>), List(<<SelDefaults>>),
     List(<<SelNoName, SelTitle>>), List(<<SelNoQuery>>)}
ScrapeBodies == {[url |-> u, selectors |-> sl] : u \in BodyUrls, sl \in BodySelectors}

\* selectorSchema: name and query are non-empty strings, type is one of the
\* enum (default 'text'), multiple a boolean (default false), attribute an
\* optional string
SelectorSchemaOk(d) ==
    /\ d # Null
    /\ IsStr(d.name) /\ Len(d.name.str) >= 1
    /\ IsStr(d.query) /\ Len(d.query.str) >= 1
    /\ d.type = Undefined
         \/ (IsStr(d.type)
             /\ d.type.str \in {TEXT, HTML, ATTRIBUTE, COUNT, EXISTS, INNERTEXT})
    /\ d.multiple = Undefined \/ IsBool(d.multiple)
    /\ d.attribute = Undefined \/ IsStr(d.attribute)

SelectorSchemaData(d) ==
    Selector(d.name, d.query,
             IF d.type = Undefined THEN Str(TEXT) ELSE d.type,
             IF d.multiple = Undefined THEN Bool(FALSE) ELSE d.multiple,
             d.attribute)

\* requestSchema.parse(req.body): whether it returns, and the data it returns
RequestSchemaParse(body) ==
    IF /\ IsStr(body.url) /\ IsUrl(body.url.str)
       /\ body.selectors = Undefined
            \/ (/\ IsList(body.selectors)
                /\ \A i \in 1..Len(body.selectors.list) :
                       SelectorSchemaOk(body.selectors.list[i]))
    THEN [ok |-> TRUE,
          data |-> Request(body.url.str,
                           IF body.selectors = Undefined THEN <<>>
                           ELSE [i \in 1..Len(body.selectors.list) |->
                                    SelectorSchemaData(body.selectors.list[i])],
                           DefaultOptions)]
    ELSE [ok |-> FALSE]

\* res.status(400).json(...) of a handler that returns without scraping
Rejected(message) ==
    /\ http' = [phase |-> "rejected", status |-> 400, message |-> message]
    /\ UNCHANGED <<scrapeVars, faultsUsed, keyVars, closing, intercept, cleared,
                   tasks, batch>>

InitValidate ==
    /\ program \in {"app", "main"}
    /\ http = [phase |-> "ready"]
    /\ browser = 0 /\ context = 0 /\ launches = 0
    /\ cache = EmptyCache
    /\ req = NoRequest
    /\ pc = "idle"
    /\ retries = 0 /\ calls = 0 /\ delays = 0
    /\ page = "none" /\ lbrowser = "none"
    /\ leaked = 0 /\ closeCalls = 0
    /\ idx = 1 /\ results = EmptyMap
    /\ error = "" /\ primary = ""
    /\ touched = FALSE
    /\ pending = NoRet
    /\ ret = NoRet
    /\ sinceLast = 0
    /\ prev = NoPrev
    /\ ncalls = 0
    /\ faultsUsed = <<>>
    /\ keyA = <<>> /\ keyB = <<>> /\ keyPhase = "start"
    /\ keyStored = <<>> /\ keyHit = <<>>
    /\ dead = FALSE /\ closing = NoClosing
    /\ intercept = NoIntercept /\ cleared = NoCleared
    /\ tasks = NoTasks /\ batch = NoBatch

\* routes/scraper.js, POST /api/scraper/scrape: `if (!url || !selectors)`
\* answers 400, anything else goes to scraperService.scrape(url, selectors,
\* options)
PostScraperScrape(body) ==
    /\ program = "app" /\ pc = "idle"
    /\ IF ~Truthy(body.url) \/ ~Truthy(body.selectors)
       THEN Rejected("Missing required parameters")
       ELSE Scrape(body.url.str, body.selectors.list, DefaultOptions)

\* main.js, POST /api/scrape: validateRequest answers 400 when
\* requestSchema.parse throws, else the handler calls scrapeSingleUrl with
\* the validated data
PostApiScrape(body) ==
    /\ program = "main" /\ pc = "idle"
    /\ LET parsed == RequestSchemaParse(body)
       IN  IF parsed.ok
           THEN ScrapeSingleUrl(parsed.data.url, parsed.data.selectors,
                                parsed.data.options)
           ELSE Rejected("Validation error")

NextValidate ==
    \/ \E body \in ScrapeBodies : PostScraperScrape(body)
    \/ \E body \in ScrapeBodies : PostApiScrape(body)
    \/ AppSteps
    \/ MainSteps
    \/ Tick

SpecValidate == InitValidate /\ [][NextValidate]_vars

(***************************************************************************)
(* Responses: what the two POST handlers send when the scrape call they    *)
(* awaited has ended                                                       *)
(***************************************************************************)
\* error.message, and error.stack (the message followed by the call frames)
ErrorMessage(e) == [message |-> e]
ErrorStack(e) == [stack |-> e]

ResponseBody(err, details) == [error |-> err, details |-> details]

\* routes/scraper.js: `res.json(results)`, and the catch block's
\* `res.status(500).json({ error: error.message || ..., details: error.stack })`
ScraperRouteResponse(r) ==
    IF r.kind = "thrown"
    THEN [phase |-> "sent", status |-> 500,
          body |-> ResponseBody(ErrorMessage(r.error), ErrorStack(r.error))]
    ELSE [phase |-> "sent", status |-> 200, body |-> ResponseBody(Undefined, Undefined)]

\* main.js: `res.json({ status: 'success', ...result, meta })`, and the catch
\* block's `res.status(500).json({ ..., details: error.message })`
ApiScrapeResponse(r) ==
    IF r.kind = "thrown"
    THEN [phase |-> "sent", status |-> 500,
          body |-> ResponseBody(Undefined, ErrorMessage(r.error))]
    ELSE [phase |-> "sent", status |-> 200,
          body |-> ResponseBody(IF r.error = "" THEN Undefined ELSE ErrorMessage(r.error),
                                Undefined)]

\* the handler's await has settled and the response is written
Respond ==
    /\ pc = "idle" /\ ret.kind # "none"
    /\ http' = (IF program = "app" THEN ScraperRouteResponse(ret)
                ELSE ApiScrapeResponse(ret))
    /\ http' # http
    /\ UNCHANGED <<scrapeVars, faultsUsed, keyVars, closing, intercept, cleared,
                   tasks, batch>>

\* a request body both handlers accept
GoodBody == [url |-> Str(URL), selectors |-> List(<<SelTitle>>)]

NextRespond ==
    \/ PostScraperScrape(GoodBody)
    \/ PostApiScrape(GoodBody)
    \/ AppSteps
    \/ MainSteps
    \/ Respond

SpecRespond == InitValidate /\ [][NextRespond]_vars

(***************************************************************************)
(* Expiry: repeated calls for one key, with the time between them chosen   *)
(* around the TTL                                                          *)
(***************************************************************************)
\* the waits between calls: just short of the TTL, and one second more
TtlSteps == {stdTTL - 1, 1}

ElapseNearTtl(d) ==
    /\ sinceLast + d \in {stdTTL - 1, stdTTL, stdTTL + 1}
    /\ Elapse(d)

NextTtl ==
    \/ Scrape(URL, <<SelTitle>>, DefaultOptions)
    \/ ScrapeSingleUrl(URL, <<SelTitle>>, DefaultOptions)
    \/ AppSteps
    \/ MainSteps
    \/ \E d \in TtlSteps : ElapseNearTtl(d)

SpecTtl == Init /\ [][NextTtl]_vars

(***************************************************************************)
(* Two calls for the same url and selectors: the first with the default    *)
(* options, the second with useCache and some other option switched        *)
(***************************************************************************)
OtherOptions ==
    {Options(TRUE, a, t, m, w) :
        a \in BOOLEAN, t \in BOOLEAN, m \in BOOLEAN, w \in BOOLEAN}
      \ {DefaultOptions}

FirstCall(selectors) ==
    /\ ncalls = 0
    /\ \/ Scrape(URL, selectors, DefaultOptions)
       \/ ScrapeSingleUrl(URL, selectors, DefaultOptions)

SecondCall(options) ==
    /\ ncalls = 1
    /\ \/ Scrape(req.url, req.selectors, options)
       \/ ScrapeSingleUrl(req.url, req.selectors, options)

NextOptions ==
    \/ \E sl \in {<<SelTitle>>, <<SelLinks, SelTitle>>} : FirstCall(sl)
    \/ \E o \in OtherOptions : SecondCall(o)
    \/ AppSteps
    \/ MainSteps
    \/ Tick

SpecOptions == Init /\ [][NextOptions]_vars

(***************************************************************************)
(* Batch analysis: src/services/imageAnalyzer.js.  The module keeps one    *)
(* counter, sentThisMinute, which a timer sets back to 0 every 60 seconds; *)
(* processBatchAnalysis walks its URLs in order, waits while the counter   *)
(* is at MAX_PER_MINUTE, counts the request and awaits the analysis.       *)
(* JavaScript runs each piece of a function between two awaits without     *)
(* interruption, so an action below is one such piece.                     *)
(***************************************************************************)
MAX_PER_MINUTE == 18

MaxUrls == 10

Batches == {1, 2}

\* the three ways analysisFn(url) ends: a result, a result carrying an
\* error field, and a rejection
ImageKinds == <<"ok", "flagged", "down">>

ImageUrl(kind, n) == <<kind, n>>

ImageList(n, shift) ==
    [i \in 1..n |-> ImageUrl(ImageKinds[((i + shift) % 3) + 1], i)]

ImageLists == {<<>>, ImageList(MaxUrls, 0), ImageList(MaxUrls, 1)}

Analysis(url) ==
    CASE url[1] = "ok" -> [settled |-> "resolved", error |-> ""]
      [] url[1] = "flagged" -> [settled |-> "resolved", error |-> "unclear"]
      [] OTHER -> [settled |-> "rejected", error |-> "timeout"]

IdleBatch ==
    [pc |-> "idle", imageUrls |-> <<>>, i |-> 1, results |-> <<>>,
     errors |-> <<>>, summary |-> [total |-> 0, successful |-> 0, failed |-> 0]]

InitBatch ==
    /\ program = "app"
    /\ batch = [phase |-> "on", sentThisMinute |-> 0,
                run |-> [b \in Batches |-> IdleBatch]]
    /\ browser = 0 /\ context = 0 /\ launches = 0
    /\ cache = EmptyCache
    /\ req = NoRequest
    /\ pc = "idle"
    /\ retries = 0 /\ calls = 0 /\ delays = 0
    /\ page = "none" /\ lbrowser = "none"
    /\ leaked = 0 /\ closeCalls = 0
    /\ idx = 1 /\ results = EmptyMap
    /\ error = "" /\ primary = ""
    /\ touched = FALSE
    /\ pending = NoRet
    /\ ret = NoRet
    /\ sinceLast = 0
    /\ prev = NoPrev
    /\ ncalls = 0
    /\ faultsUsed = <<>>
    /\ keyA = <<>> /\ keyB = <<>> /\ keyPhase = "start"
    /\ keyStored = <<>> /\ keyHit = <<>>
    /\ dead = FALSE /\ closing = NoClosing
    /\ intercept = NoIntercept /\ cleared = NoCleared
    /\ tasks = NoTasks /\ http = NoHttp

LimitReachedOffByOne(sent) == sent > MAX_PER_MINUTE

LimitReached(sent) == sent >= MAX_PER_MINUTE

BatchSummary(st) ==
    [total |-> Len(st.imageUrls), successful |-> Len(st.results),
     failed |-> Len(st.errors)]

\* from the top of the for loop to the next await or to the return
LoopTop(b, st) ==
    IF st.i > Len(st.imageUrls)
    THEN batch' = [batch EXCEPT
                     !.run[b] = [st EXCEPT !.pc = "returned",
                                           !.summary = BatchSummary(st)]]
    ELSE IF LimitReached(batch.sentThisMinute)
    THEN batch' = [batch EXCEPT !.run[b] = [st EXCEPT !.pc = "sleeping"]]
    ELSE batch' = [batch EXCEPT
                     !.sentThisMinute = batch.sentThisMinute + 1,
                     !.run[b] = [st EXCEPT !.pc = "awaiting"]]

batchUnchanged ==
    <<scrapeVars, faultsUsed, keyVars, closing, intercept, cleared, tasks, http>>

ProcessBatchAnalysis(b, imageUrls) ==
    /\ batch.phase = "on"
    /\ batch.run[b].pc = "idle"
    /\ IF Len(imageUrls) = 0
       THEN batch' = [batch EXCEPT !.run[b].pc = "thrown"]
       ELSE LoopTop(b, [IdleBatch EXCEPT !.imageUrls = imageUrls])
    /\ UNCHANGED batchUnchanged

SleepOver(b) ==
    /\ batch.phase = "on"
    /\ batch.run[b].pc = "sleeping"
    /\ LoopTop(b, batch.run[b])
    /\ UNCHANGED batchUnchanged

Settled(st) ==
    LET url == st.imageUrls[st.i]
        result == Analysis(url)
    IN  IF result.settled = "resolved" /\ result.error = ""
        THEN [st EXCEPT !.results = Append(@, [url |-> url]), !.i = @ + 1]
        ELSE [st EXCEPT !.errors = Append(@, [url |-> url,
                                              error |-> result.error]),
                        !.i = @ + 1]

AnalysisSettles(b) ==
    /\ batch.phase = "on"
    /\ batch.run[b].pc = "awaiting"
    /\ LoopTop(b, Settled(batch.run[b]))
    /\ UNCHANGED batchUnchanged

ResetCounter ==
    /\ batch.phase = "on"
    /\ batch.sentThisMinute # 0
    /\ batch' = [batch EXCEPT !.sentThisMinute = 0]
    /\ UNCHANGED batchUnchanged

NextBatch ==
    \/ \E b \in Batches, imageUrls \in ImageLists :
          ProcessBatchAnalysis(b, imageUrls)
    \/ \E b \in Batches : SleepOver(b)
    \/ \E b \in Batches : AnalysisSettles(b)
    \/ ResetCounter

SpecBatch == InitBatch /\ [][NextBatch]_vars

(***************************************************************************)
(* Properties                                                              *)
(***************************************************************************)
\* a call has just ended (nothing resets the call's counters before the next
\* call starts)
Ended == pc = "idle" /\ ret.kind # "none"

\* C1: when ScraperService.retry lets the error of an always-failing operation
\* propagate, the operation has been invoked exactly maxRetries + 1 times and
\* exactly maxRetries delays of retryDelay have been waited; while the error is
\* in retry()'s catch block the counts are those of the frame, so no delay
\* follows the last failure
C1_RetryBound ==
    program = "app" =>
        /\ (Ended /\ ret.kind = "thrown") =>
               (calls = maxRetries + 1 /\ delays = maxRetries
                /\ delays * retryDelay = maxRetries * retryDelay)
        /\ pc = "retryCatch" =>
               (calls = maxRetries - retries + 1 /\ delays = maxRetries - retries)

C1_Witness ==
    /\ program = "app" /\ Ended /\ ret.kind = "thrown"
    /\ calls = maxRetries + 1 /\ delays = maxRetries

\* C2: when page.goto throws, close() has been invoked exactly once on the
\* attempt's page when the error leaves the attempt (retry()'s catch block in
\* scraper.js, the return of the error bundle in main.js), and not before the
\* handler runs
C2_CloseOnceOnGotoFailure ==
    /\ (program = "app" /\ pc = "retryCatch" /\ primary = "goto") => closeCalls = 1
    /\ (program = "app" /\ pc = "catch" /\ primary = "goto") => closeCalls = 0
    /\ (program = "main" /\ pc \in {"mFinallyBrowser", "idle"} /\ primary = "goto")
           => closeCalls = 1

C2_Witness == program = "app" /\ pc = "retryCatch" /\ primary = "goto" /\ page = "closed"

\* C3: when a scrape call has ended, every page it opened has been closed:
\* none was abandoned without close() being called on it, whatever step failed
C3_EveryPageClosed == Ended => leaked = 0

\* C4: a failure of page.close() is never what leaves a scrape attempt: the
\* error in flight is the primary error of the attempt (none, when navigation
\* and extraction succeeded), and no call ends with the close error
C4_CloseFailureNeverPropagates ==
    /\ pc = "retryCatch" => error = primary
    /\ Ended => ret.error # "close"

KeyOf(prog, url, selectors) ==
    IF prog = "app" THEN ScrapeCacheKey(url, selectors)
    ELSE createCacheKey(url, selectors)

\* C5: a call with useCache that finds a live entry for its (url, selectors)
\* key returns that entry's bundle marked fromCache = true at once: no
\* session initialization, no page, no navigation, no extraction, no retry
C5_CacheHitBypasses ==
    [][(/\ pc = "idle" /\ ncalls' = ncalls + 1
        /\ req'.options.useCache
        /\ Live(cache, KeyOf(program, req'.url, req'.selectors)))
       => (/\ pc' = "idle"
           /\ ret'.kind = "returned"
           /\ ret'.data = cache[KeyOf(program, req'.url, req'.selectors)].val.data
           /\ ret'.fromCache = Bool(TRUE)
           /\ ~touched' /\ calls' = 0 /\ delays' = 0
           /\ page' = "none" /\ lbrowser' = "none"
           /\ UNCHANGED sessionVars)]_vars

\* C6: of two consecutive calls for the same url and selectors, both with
\* useCache and at most stdTTL seconds apart, the first of which returned data,
\* the second returns the data the first returned and is marked
\* fromCache = true
C6_IdempotentCaching ==
    (Ended /\ prev.same /\ prev.ret.kind = "returned" /\ prev.ret.error = "") =>
        (ret.data = prev.ret.data /\ ret.fromCache = Bool(TRUE))

\* the two lists differ in the query, type, multiple or attribute of a selector
DiffersInKeyField(a, b) ==
    /\ Len(a) = Len(b)
    /\ \E i \in 1..Len(a) :
          \/ a[i].query # b[i].query
          \/ a[i].type # b[i].type
          \/ a[i].multiple # b[i].multiple
          \/ a[i].attribute # b[i].attribute

\* C7: with the url fixed, a selector list that differs from the stored one in
\* some selector's query, type, multiple or attribute has a different cache
\* key, in scraper.js and in main.js, so the later call misses the entry
C7_KeySensitivity ==
    (keyPhase = "looked" /\ DiffersInKeyField(keyA, keyB)) =>
        (~keyHit.app /\ ~keyHit.main)

C7_Witness ==
    /\ keyPhase = "looked"
    /\ Len(keyA) = 1 /\ Len(keyB) = 1
    /\ keyA[1].query = keyB[1].query /\ keyA[1].type = keyB[1].type
    /\ keyA[1].multiple = keyB[1].multiple
    /\ keyA[1].attribute = Undefined /\ keyB[1].attribute = Str(HREF)
    /\ ~keyHit.app /\ ~keyHit.main

\* the selectors whose handling is over, with the fault the browser applied
Handled ==
    IF program = "app" /\ pc \in {"extract", "close"}
    THEN {i \in 1..Len(faultsUsed) : i < idx}
    ELSE IF program = "main" /\ pc = "mFinallyPage" /\ error = ""
    THEN 1..Len(faultsUsed)
    ELSE {}

WellFormed(sel) ==
    /\ sel # Null
    /\ IsStr(sel.name) /\ IsStr(sel.query) /\ IsStr(sel.type)

\* the value a selector without matching elements is to give
ExpectedEmpty(sel) ==
    IF sel.type = Str(COUNT) THEN Num(0)
    ELSE IF sel.type = Str(EXISTS) THEN Bool(FALSE)
    ELSE IF Truthy(sel.multiple) THEN List(<<>>)
    ELSE Null

\* C8: a selector whose query matches no element gives 0 for count, false for
\* exists, [] for multiple and null otherwise, in both extractors
C8_EmptyMatch ==
    \A i \in Handled :
        LET sel == req.selectors[i]
        IN  (/\ WellFormed(sel)
             /\ faultsUsed[i] = "none"
             /\ sel.query.str # QBAD
             /\ Matches(sel.query.str) = <<>>)
            => (Has(results, sel.name) /\ results[sel.name] = ExpectedEmpty(sel))

\* C9: a selector of type attribute without an attribute field, single-valued,
\* whose query matches an element: extraction does not throw and the result
\* map holds its name with the value null
C9_AttributeWithoutName ==
    \A i \in Handled :
        LET sel == req.selectors[i]
        IN  (/\ WellFormed(sel)
             /\ sel.type = Str(ATTRIBUTE) /\ sel.attribute = Undefined
             /\ ~Truthy(sel.multiple)
             /\ faultsUsed[i] = "none"
             /\ Matches(sel.query.str) # <<>>)
            => (Has(results, sel.name) /\ results[sel.name] = Null)

\* handling the selector raised an exception: its evaluation or an element
\* operation threw, or the entry is null or lacks name, query or type
Raised(sel, fault) ==
    \/ ~WellFormed(sel)
    \/ fault = "query" \/ sel.query.str = QBAD
    \/ /\ program = "main" /\ Matches(sel.query.str) # <<>>
       /\ \/ fault = "count"
          \/ /\ fault = "extract"
             /\ \/ sel.type \in {Str(TEXT), Str(INNERTEXT), Str(HTML)}
                \/ sel.type = Str(ATTRIBUTE) /\ Truthy(sel.attribute)

\* C10: an exception raised while one selector is handled never ends the
\* extraction (every selector of the list is handled and the attempt does not
\* fail), and that selector's value is [] when multiple and null otherwise
C10_ErrorsConfined ==
    /\ pc # "catch" /\ error = ""
    /\ \A i \in Handled :
          LET sel == req.selectors[i]
          IN  (sel # Null /\ IsStr(sel.name) /\ Raised(sel, faultsUsed[i]))
              => (Has(results, sel.name)
                  /\ results[sel.name] = EmptyValue(sel.multiple))

\* C11: a network-idle wait that follows a successful navigation never fails
\* the attempt, whether it times out or not: the step taken from the wait
\* raises no error and goes on to the extraction
C11_IdleTimeoutNonFatal ==
    [][(pc \in {"waitIdle", "mWait"})
          => (error' = "" /\ pc' \in {"extract", "close", "mExtract"})]_vars

\* the request is to be aborted: an ad or tracker flag is set and the
\* lower-cased URL contains a keyword of the list, or blockMedia is set and
\* the resource is an image, a media file or a font
MustAbort(options, url, resourceType, keywords) ==
    \/ /\ options.blockAds \/ options.blockTrackers
       /\ \E k \in keywords : Includes(ToLowerCase(url), k)
    \/ options.blockMedia /\ resourceType \in {"image", "media", "font"}

\* C12: a request is aborted exactly when (blockAds or blockTrackers, and its
\* lower-cased URL contains a keyword of the program's blocklist) or
\* (blockMedia, and its type is image, media or font), and is continued
\* otherwise, in scraper.js and in main.js
C12_BlockingDecision ==
    intercept.phase = "decided" =>
        /\ intercept.app = "abort" <=>
               MustAbort(intercept.options, intercept.url, intercept.resourceType,
                         BLOCKED_DOMAINS_KEYWORDS)
        /\ intercept.main = "abort" <=>
               MustAbort(intercept.options, intercept.url, intercept.resourceType,
                         AdNames \cup TrackerNames)
        /\ intercept.app \in {"abort", "continue"}
        /\ intercept.main \in {"abort", "continue"}

\* what a clear with the given target is to leave of the cache
ExpectedAfterClear(before, target) ==
    IF target = Undefined THEN EmptyCache
    ELSE [k \in {x \in DOMAIN before : ~StartsWith(x, target.str)} |-> before[k]]

\* C13: a clear with a target removes exactly the entries whose key starts
\* with the target and leaves every other entry as it was (key, value, age);
\* a clear without target removes every entry
C13_ClearRemovesPrefix ==
    cleared.phase \in {"done", "failed"} =>
        cache = ExpectedAfterClear(cleared.before, cleared.target)

\* C14: every clear reports the number of entries it removed: the size of the
\* cache before the call minus its size after it
C14_ClearReportsCount ==
    cleared.phase = "done" =>
        cleared.reported =
            Num(Cardinality(DOMAIN cleared.before) - Cardinality(DOMAIN cache))

\* C15: whatever the interleaving of concurrent scrape calls, at most one
\* browser and at most one context are launched, so none is left without a
\* reference, and every page is made from the one shared context
C15_SingleSharedSession ==
    /\ launches <= 1
    /\ tasks.contexts <= 1
    /\ \A t \in Tasks : tasks.page[t] # 0 => tasks.page[t] = tasks.current

\* C16: once initialize() has completed (browser and context are set), a later
\* initialize() with no close() in between launches no browser, creates no
\* context, leaves both references as they are, and completes
C16_InitializeIdempotent ==
    [][(program = "app" /\ pc = "fn" /\ browser # 0 /\ context # 0)
          => (/\ browser' = browser /\ context' = context
              /\ launches' = launches
              /\ pc' = "newPage")]_vars

\* the initialize() of a second call has completed on the session that the
\* first call, which succeeded and cached its result, had set up
C16_Witness ==
    /\ program = "app" /\ pc = "newPage"
    /\ ncalls = 2 /\ calls = 1
    /\ launches = 1 /\ browser = 1 /\ context = 1
    /\ cache # EmptyCache

C19_NoPartialSession ==
    (program = "app" /\ pc = "retryCatch" /\ primary \in {"launch", "context"})
        => (/\ error = primary
            /\ browser = 0 /\ context = 0)

\* C18: with the browser dying only between calls, every initialize() that
\* has completed leaves a working session behind it, so no attempt of a
\* scrape fails at page creation because the session is dead
C18_DeadSessionReestablished ==
    program = "app" =>
        /\ pc = "newPage" => ~dead
        /\ (pc = "retryCatch" /\ primary = "newPage") => ~dead

\* what C20 asks of a request: a url that parses and descriptors that all
\* carry a name and a query
HasNameAndQuery(d) ==
    /\ d # Null
    /\ IsStr(d.name) /\ d.name.str # <<>>
    /\ IsStr(d.query) /\ d.query.str # <<>>

ValidRequest(r) ==
    /\ IsUrl(r.url)
    /\ \A i \in 1..Len(r.selectors) : HasNameAndQuery(r.selectors[i])

\* C20: browser work (launch, page creation, navigation) is only ever begun
\* for a request with a well-formed url whose descriptors all have name and
\* query, and a request that was turned down got a 4xx status
C20_RejectedBeforeBrowser ==
    /\ touched => ValidRequest(req)
    /\ http.phase = "rejected" => http.status \in 400..499

C22_NoStackTraceInResponse ==
    http.phase = "sent" =>
        \A f \in DOMAIN http.body : DOMAIN http.body[f] # {"stack"}

AttemptOrder ==
    {<<"idle", "fn">>, <<"fn", "newPage">>, <<"newPage", "route">>,
     <<"route", "goto">>, <<"goto", "waitIdle">>, <<"goto", "extract">>,
     <<"goto", "close">>, <<"waitIdle", "extract">>, <<"waitIdle", "close">>,
     <<"extract", "close">>, <<"close", "idle">>,
     <<"idle", "mLaunch">>, <<"mLaunch", "mContext">>, <<"mContext", "mNewPage">>,
     <<"mNewPage", "mRoute">>, <<"mRoute", "mGoto">>, <<"mGoto", "mWait">>,
     <<"mGoto", "mExtract">>, <<"mWait", "mExtract">>,
     <<"mExtract", "mFinallyPage">>, <<"mFinallyPage", "mFinallyBrowser">>,
     <<"mFinallyBrowser", "idle">>}

\* the ways out of an attempt that failed at a step
FailureOrder ==
    {<<"fn", "retryCatch">>, <<"newPage", "retryCatch">>, <<"route", "retryCatch">>,
     <<"goto", "catch">>, <<"waitIdle", "catch">>, <<"extract", "catch">>,
     <<"close", "catch">>, <<"catch", "retryCatch">>, <<"retryCatch", "delay">>,
     <<"retryCatch", "idle">>, <<"delay", "fn">>,
     <<"mLaunch", "mFinallyPage">>, <<"mContext", "mFinallyPage">>,
     <<"mNewPage", "mFinallyPage">>, <<"mRoute", "mFinallyPage">>,
     <<"mGoto", "mFinallyPage">>}

\* the step stores an entry: a new key, or a younger entry of a known key
CacheWritten(before, after) ==
    \E k \in DOMAIN after : k \notin DOMAIN before \/ after[k].age < before[k].age

\* C24: an attempt moves through session ready, page opened, interceptor
\* installed, navigation completed, extraction, page closed in this order;
\* nothing is extracted before the navigation has completed or when the page
\* is not open; scraper.js extracts the descriptors one per step in list
\* order; the cache is written only when every descriptor has been extracted
C24_AttemptOrder ==
    [][/\ pc' # pc => <<pc, pc'>> \in AttemptOrder \cup FailureOrder
       /\ pc \in {"fn", "newPage", "route", "goto", "waitIdle", "mLaunch",
                  "mContext", "mNewPage", "mRoute", "mGoto", "mWait"}
            => (results = EmptyMap /\ idx = 1)
       /\ pc \in {"fn", "newPage", "mLaunch", "mContext", "mNewPage"}
            => page = "none"
       /\ pc \in {"route", "goto", "waitIdle", "extract", "close", "mRoute",
                  "mGoto", "mWait", "mExtract"}
            => page = "open"
       /\ (results' # results /\ results' # EmptyMap)
            => (/\ pc \in {"extract", "mExtract"} /\ page = "open")
       /\ (program = "app" /\ idx' # idx /\ idx' # 1)
            => (/\ pc = "extract" /\ idx' = idx + 1
                /\ idx <= Len(req.selectors))
       /\ CacheWritten(cache, cache')
            => (/\ program = "app" =>
                     (pc = "close" /\ idx = Len(req.selectors) + 1
                      /\ page' = "closed")
                /\ program = "main" =>
                     (/\ pc = "mExtract" /\ page = "open"
                      /\ results' = processSelectors(req.selectors, faultsUsed').map))]_vars

\* a scraper.js call over two descriptors has extracted both, closed the
\* page and stored the result
C24_Witness ==
    /\ program = "app" /\ Ended /\ ret.kind = "returned" /\ touched
    /\ Len(req.selectors) = 2 /\ idx = 3
    /\ page = "closed"
    /\ Live(cache, ScrapeCacheKey(req.url, req.selectors))
    /\ cache[ScrapeCacheKey(req.url, req.selectors)].age = 0

\* C25: when retry() has let an error propagate, the error is the one the
\* last invocation raised, and it carries the number of invocations made
C25_LastErrorAnnotated ==
    (program = "app" /\ Ended /\ ret.kind = "thrown") =>
        LET e == Rethrown(ret.error)
        IN  /\ e.message = error
            /\ "attempts" \in DOMAIN e
            /\ e.attempts = calls

\* C26: whatever the interleaving of concurrent initialize() calls, when the
\* browser and the context references are both set the context is one that
\* was created from the referenced browser, so no page is made from the
\* context of a browser that was replaced
C26_ContextOfReferencedBrowser ==
    (browser # 0 /\ context # 0) => context = browser

\* C27: every cache entry holds a bundle without an error; an entry is only
\* written by the step that ends an attempt in success (scraper.js) or by
\* the step that has finished the extraction with no exception (main.js),
\* never by an attempt that fails; and a call served from the cache returns
\* a bundle without an error
C27_OnlySuccessCached ==
    [][/\ \A k \in DOMAIN cache' :
              /\ cache'[k].val.kind = "returned"
              /\ cache'[k].val.error = ""
              /\ cache'[k].val.success # Bool(FALSE)
              /\ cache'[k].val.data # Undefined
       /\ CacheWritten(cache, cache')
            => (/\ error = "" /\ primary = "" /\ error' = ""
                /\ program = "app" =>
                     (pc = "close" /\ pc' = "idle" /\ ret'.kind = "returned")
                /\ program = "main" =>
                     (/\ pc = "mExtract"
                      /\ pending'.kind = "returned" /\ pending'.error = ""))
       /\ (pc = "idle" /\ ncalls' = ncalls + 1 /\ pc' = "idle")
            => (ret'.kind = "returned" /\ ret'.error = "")]_vars

\* a scraper.js call whose first attempt failed and whose second succeeded
\* has stored the result of the second attempt, and nothing else
C27_Witness ==
    /\ program = "app" /\ Ended /\ touched /\ calls = 2
    /\ req.options.useCache
    /\ ret.kind = "returned" /\ ret.error = ""
    /\ DOMAIN cache = {ScrapeCacheKey(req.url, req.selectors)}
    /\ cache[ScrapeCacheKey(req.url, req.selectors)].val.data = ret.data

\* C28: a scrape call that ended in success on the k-th invocation of its
\* operation (k = maxRetries - retries + 1, between 1 and maxRetries + 1)
\* has invoked it exactly k times and waited exactly k - 1 delays, returns
\* the value of that invocation and raises no error; the success ends the
\* call, so nothing is invoked after it
C28_StopsAtFirstSuccess ==
    [][(program = "app" /\ pc = "close" /\ pc' = "idle")
          => (/\ ret'.kind = "returned" /\ ret'.error = ""
              /\ ret'.data = Obj(results)
              /\ calls' = calls /\ delays' = delays /\ retries' = retries
              /\ calls = maxRetries - retries + 1
              /\ calls \in 1..(maxRetries + 1)
              /\ delays = calls - 1
              /\ delays * retryDelay = (calls - 1) * retryDelay)]_vars

\* the third invocation succeeded after two failures and two delays
C28_Witness ==
    /\ program = "app" /\ Ended /\ touched
    /\ ret.kind = "returned" /\ ret.data = Obj(results)
    /\ calls = 3 /\ delays = 2 /\ retries = maxRetries - 2

\* C29: the cache key is made of the url and the selector list only: a call
\* with useCache that repeats the url and the selectors of the call before
\* it with other options (blockAds, blockTrackers, blockMedia,
\* waitForNetworkIdle) has the same key, and while the entry the first call
\* stored is live it is served that call's data, with no browser work and
\* no new entry
C29_KeyIgnoresOptions ==
    [][(/\ pc = "idle" /\ ncalls >= 1 /\ ncalls' = ncalls + 1
        /\ req'.url = req.url /\ req'.selectors = req.selectors
        /\ req'.options # req.options
        /\ req.options.useCache /\ req'.options.useCache
        /\ ret.kind = "returned" /\ ret.error = "" /\ touched
        /\ Live(cache, KeyOf(program, req.url, req.selectors)))
       => (/\ KeyOf(program, req'.url, req'.selectors)
                = KeyOf(program, req.url, req.selectors)
           /\ pc' = "idle"
           /\ ret'.kind = "returned" /\ ret'.data = ret.data
           /\ ~touched'
           /\ DOMAIN cache' = DOMAIN cache)]_vars

\* the second call, made with options other than the first call's defaults,
\* was served the first call's data
C29_Witness ==
    /\ Ended /\ ncalls = 2 /\ ~touched
    /\ req.options # DefaultOptions /\ req.options.useCache
    /\ prev.same /\ prev.ret.kind = "returned"
    /\ ret.kind = "returned" /\ ret.data = prev.ret.data

\* C30: in batch analysis the minute counter never exceeds MAX_PER_MINUTE,
\* whatever the interleaving of concurrent batches and of the timer that
\* resets the counter; and every batch that has returned has put each of its
\* URLs in exactly one of results and errors, so that summary.successful +
\* summary.failed = summary.total.
C30_RateLimitedAndAccounted ==
    batch.phase = "on" =>
        /\ batch.sentThisMinute <= MAX_PER_MINUTE
        /\ \A b \in Batches :
              LET st == batch.run[b]
                  inResults(u) == \E k \in 1..Len(st.results) : st.results[k].url = u
                  inErrors(u) == \E k \in 1..Len(st.errors) : st.errors[k].url = u
              IN  st.pc = "returned" =>
                     /\ \A j \in 1..Len(st.imageUrls) :
                           inResults(st.imageUrls[j]) # inErrors(st.imageUrls[j])
                     /\ Len(st.results) + Len(st.errors) = Len(st.imageUrls)
                     /\ st.summary.total = Len(st.imageUrls)
                     /\ st.summary.successful + st.summary.failed
                           = st.summary.total

\* one batch has returned with both results and errors while the other one
\* waits because the counter stands at the limit
C30_Witness ==
    /\ batch.phase = "on"
    /\ batch.sentThisMinute = MAX_PER_MINUTE
    /\ \E b, c \in Batches :
          /\ batch.run[b].pc = "returned"
          /\ batch.run[b].summary.successful > 0
          /\ batch.run[b].summary.failed > 0
          /\ batch.run[c].pc = "sleeping"

====
